---- MODULE Spec2Model ----
(***************************************************************************)
(* Credential sign-up, credential login, session claims projection and     *)
(* route guards of the aegis-ai application.                                *)
(*                                                                         *)
(* Strings that the code inspects character by character (names, emails,   *)
(* passwords) are sequences of characters, one per UTF-16 code unit: a     *)
(* printable ASCII character or a line break is a one-character string,    *)
(* every other code unit is written "U+" and its four hexadecimal digits.  *)
(* Messages that the code only passes along are TLA+ strings.              *)
(***************************************************************************)
EXTENDS Integers, Sequences, FiniteSets, TLC

VARIABLES users, nextId, su, li, cookie, req, seen, lab, now, oauth, pending,
          emailConstraint

vars == <<users, nextId, su, li, cookie, req, seen, lab, now, oauth, pending,
          emailConstraint>>

(***************************************************************************)
(* JavaScript values                                                       *)
(***************************************************************************)
\* null
Null == [tag |-> "null"]

\* a Date object holding the instant t
DateOf(t) == [tag |-> "Date", t |-> t]

\* the ISO string Date.prototype.toJSON produces for the instant t
IsoOf(t) == [tag |-> "string", iso |-> t]

\* undefined: what reading a property an object does not have yields
Undefined == [tag |-> "undefined"]

\* JavaScript truthiness of the values above (null and undefined are falsy; a
\* Date object, a non-empty string and any other object are truthy)
Truthy(v) == ~("tag" \in DOMAIN v /\ v.tag \in {"null", "undefined"})

\* obj[field], undefined when the object has no such property
Get(obj, field) == IF field \in DOMAIN obj THEN obj[field] ELSE Undefined

(***************************************************************************)
(* Characters                                                              *)
(***************************************************************************)
Lower == {"a", "b", "c", "d", "e", "f", "g", "h", "i", "j", "k", "l", "m",
          "n", "o", "p", "q", "r", "s", "t", "u", "v", "w", "x", "y", "z"}

Upper == {"A", "B", "C", "D", "E", "F", "G", "H", "I", "J", "K", "L", "M",
          "N", "O", "P", "Q", "R", "S", "T", "U", "V", "W", "X", "Y", "Z"}

Digit == {"0", "1", "2", "3", "4", "5", "6", "7", "8", "9"}

\* the code units U+2028 (line separator) and U+2029 (paragraph separator),
\* each one character of a string
LineSeparator == "U+2028"

ParagraphSeparator == "U+2029"

\* the code units U+0000 (NUL), U+00E8 (e grave) and U+00E9 (e acute)
Nul == "U+0000"

EGrave == "U+00E8"

EAcute == "U+00E9"

\* the characters the regular expression's "." does not match
LineTerminator == {"\n", "\r", LineSeparator, ParagraphSeparator}

AlphaNum == Lower \cup Upper \cup Digit

(***************************************************************************)
(* lib/validations/auth.ts: the zod schemas                                *)
(***************************************************************************)
NameMin == 2

NameMax == 100

PasswordMin == 8

PasswordMax == 100

LoginPasswordMin == 1

\* positions of the character c in the string s
Positions(s, c) == {i \in 1..Len(s) : s[i] = c}

\* the labels of s between the separators c, as a sequence of strings
RECURSIVE Split(_, _)
Split(s, c) ==
    IF Positions(s, c) = {}
    THEN <<s>>
    ELSE LET i == CHOOSE k \in Positions(s, c) : \A m \in Positions(s, c) : k <= m
         IN  <<SubSeq(s, 1, i - 1)>> \o Split(SubSeq(s, i + 1, Len(s)), c)

\* z.email(): the pattern
\*   ^(?!\.)(?!.*\.\.)([A-Za-z0-9_'+\-\.]*)[A-Za-z0-9_+-]@
\*    ([A-Za-z0-9][A-Za-z0-9\-]*\.)+[A-Za-z]{2,}$
EmailShape(e) ==
    /\ Cardinality(Positions(e, "@")) = 1
    /\ LET at     == CHOOSE i \in Positions(e, "@") : TRUE
           local  == SubSeq(e, 1, at - 1)
           domain == SubSeq(e, at + 1, Len(e))
           labels == Split(domain, ".")
           n      == Len(labels)
       IN  /\ Len(local) >= 1
           /\ e[1] # "."
           /\ \A i \in 1..(Len(e) - 1) : ~(e[i] = "." /\ e[i + 1] = ".")
           /\ \A i \in 1..Len(local) :
                 local[i] \in AlphaNum \cup {"_", "'", "+", "-", "."}
           /\ local[Len(local)] \in AlphaNum \cup {"_", "+", "-"}
           /\ n >= 2
           /\ Len(labels[n]) >= 2
           /\ \A i \in 1..Len(labels[n]) : labels[n][i] \in Lower \cup Upper
           /\ \A k \in 1..(n - 1) :
                 /\ Len(labels[k]) >= 1
                 /\ labels[k][1] \in AlphaNum
                 /\ \A i \in 1..Len(labels[k]) : labels[k][i] \in AlphaNum \cup {"-"}

\* a lookahead (?=.*[class]) anchored at the start of the string: "." stops
\* at a line terminator
Lookahead(p, class) ==
    \E i \in 1..Len(p) :
        /\ p[i] \in class
        /\ \A j \in 1..(i - 1) : p[j] \notin LineTerminator

\* .regex(/^(?=.*[a-z])(?=.*[A-Z])(?=.*\d)/)
PasswordPattern(p) ==
    /\ Lookahead(p, Lower)
    /\ Lookahead(p, Upper)
    /\ Lookahead(p, Digit)

\* the issues signupSchema.parse collects, in field order; empty when it
\* returns the validated data
signupSchema(data) ==
    (IF Len(data.name) < NameMin THEN <<"Name must be at least 2 characters">> ELSE <<>>)
    \o (IF Len(data.name) > NameMax THEN <<"Too big: expected string to have <=100 characters">> ELSE <<>>)
    \o (IF ~EmailShape(data.email) THEN <<"Invalid email address">> ELSE <<>>)
    \o (IF Len(data.password) < PasswordMin
        THEN <<"Password must be at least 8 characters">> ELSE <<>>)
    \o (IF Len(data.password) > PasswordMax
        THEN <<"Too big: expected string to have <=100 characters">> ELSE <<>>)
    \o (IF ~PasswordPattern(data.password)
        THEN <<"Password must contain at least one uppercase letter, one lowercase letter, and one number">>
        ELSE <<>>)

\* the data signupSchema.parse returns: the declared keys, any other key of
\* the payload stripped
Validated(data) == [name |-> data.name, email |-> data.email, password |-> data.password]

\* a login schema whose address check allows no plus sign
loginSchemaNoPlus(credentials) ==
    (IF ~EmailShape(credentials.email) \/ Positions(credentials.email, "+") # {}
     THEN <<"Invalid email address">> ELSE <<>>)
    \o (IF Len(credentials.password) < LoginPasswordMin
        THEN <<"Password is required">> ELSE <<>>)

\* the issues loginSchema.parse collects
loginSchema(credentials) ==
    (IF ~EmailShape(credentials.email) THEN <<"Invalid email address">> ELSE <<>>)
    \o (IF Len(credentials.password) < LoginPasswordMin
        THEN <<"Password is required">> ELSE <<>>)

(***************************************************************************)
(* lib/auth/password.ts: bcrypt                                            *)
(***************************************************************************)
BcryptRounds == 12

\* bcrypt keys its cipher with at most this many bytes of the password
BcryptKeyBytes == 72

\* the printable ASCII characters in the order of their codes: from the space
\* (32) to the underscore (95), and from "a" (97) to the tilde (126); the
\* grave accent between them (96) cannot stand in a string here
AsciiFromSpace == " !\"#$%&'()*+,-./0123456789:;<=>?@ABCDEFGHIJKLMNOPQRSTUVWXYZ[\\]^_"

AsciiFromLowerA == "abcdefghijklmnopqrstuvwxyz{|}~"

\* the place of the character c in the string s, 0 if it is not in it
IndexIn(c, s) ==
    IF \E i \in 1..Len(s) : SubSeq(s, i, i) = c
    THEN CHOOSE i \in 1..Len(s) : SubSeq(s, i, i) = c
    ELSE 0

\* the number a string of hexadecimal digits stands for
RECURSIVE HexValue(_)
HexValue(h) ==
    IF Len(h) = 0
    THEN 0
    ELSE 16 * HexValue(SubSeq(h, 1, Len(h) - 1))
         + IndexIn(SubSeq(h, Len(h), Len(h)), "0123456789ABCDEF") - 1

\* the codes of the printable ASCII characters
AsciiCode ==
    [c \in {SubSeq(AsciiFromSpace, i, i) : i \in 1..Len(AsciiFromSpace)}
           \cup {SubSeq(AsciiFromLowerA, i, i) : i \in 1..Len(AsciiFromLowerA)} |->
        IF IndexIn(c, AsciiFromSpace) > 0
        THEN 31 + IndexIn(c, AsciiFromSpace)
        ELSE 96 + IndexIn(c, AsciiFromLowerA)]

\* charCodeAt: the UTF-16 code unit of a character of a string.  A character
\* that is not one of the printable ASCII characters above or a line break
\* is written "U+" and the four hexadecimal digits of its code unit
charCodeAt(c) ==
    IF Len(c) > 1 THEN HexValue(SubSeq(c, 3, Len(c)))
    ELSE IF c = "\n" THEN 10
    ELSE IF c = "\r" THEN 13
    ELSE IF c = "\t" THEN 9
    ELSE AsciiCode[c]

\* the UTF-8 bytes of a code point: one up to U+007F, two up to U+07FF, three
\* up to U+FFFF, four above
Utf8Bytes(cp) ==
    IF cp < 128 THEN <<cp>>
    ELSE IF cp < 2048 THEN <<192 + (cp \div 64), 128 + (cp % 64)>>
    ELSE IF cp < 65536
         THEN <<224 + (cp \div 4096), 128 + ((cp \div 64) % 64), 128 + (cp % 64)>>
    ELSE <<240 + (cp \div 262144), 128 + ((cp \div 4096) % 64),
           128 + ((cp \div 64) % 64), 128 + (cp % 64)>>

\* the UTF-8 bytes of a character that is not half of a pair; a surrogate on
\* its own is written in three bytes like every code unit from U+0800 on
Utf8Char(c) == Utf8Bytes(charCodeAt(c))

\* the bytes each code unit of a string contributes: a high surrogate
\* (U+D800 to U+DBFF) followed by a low one (U+DC00 to U+DFFF) gives the four
\* bytes of their code point, and the low one after it gives none
Utf8Parts(units) ==
    [i \in 1..Len(units) |->
        IF i > 1 /\ units[i] \in 56320..57343 /\ units[i - 1] \in 55296..56319
        THEN <<>>
        ELSE IF i < Len(units) /\ units[i] \in 55296..56319
                               /\ units[i + 1] \in 56320..57343
             THEN Utf8Bytes(65536 + (units[i] - 55296) * 1024 + (units[i + 1] - 56320))
        ELSE Utf8Bytes(units[i])]

\* the sequences parts[from], ..., parts[to] one after the other
RECURSIVE Concat(_, _, _)
Concat(parts, from, to) ==
    IF from > to THEN <<>>
    ELSE IF from = to THEN parts[from]
    ELSE Concat(parts, from, (from + to) \div 2)
         \o Concat(parts, ((from + to) \div 2) + 1, to)

\* the UTF-8 encoding of a string, as bcryptjs computes it
Utf8(str) == Concat(Utf8Parts([i \in 1..Len(str) |-> charCodeAt(str[i])]), 1, Len(str))

\* the part of the password the hash depends on: the key schedule reads 72
\* bytes from the UTF-8 encoding of the password followed by a zero byte,
\* starting over at its end
BcryptKey(password) ==
    LET bytes == Utf8(password) \o <<0>>
    IN  [i \in 1..BcryptKeyBytes |-> bytes[((i - 1) % Len(bytes)) + 1]]

\* bcryptjs hash(password, rounds) with the salt the library drew: the hash
\* string carries the cost, the salt and the digest of the keyed password
hash(password, rounds, salt) ==
    [tag |-> "hash", rounds |-> rounds, salt |-> salt, digest |-> BcryptKey(password)]

\* hash(password, 12)
hashPassword(password, salt) == hash(password, BcryptRounds, salt)

\* a compare that hashes the password afresh instead of with the stored salt
verifyPasswordRehash(password, hashedPassword) ==
    hashPassword(password, 1) = hashedPassword

\* compare(password, hashedPassword): bcryptjs hashes the password with the
\* cost and the salt the hash string carries and compares the two strings
verifyPassword(password, hashedPassword) ==
    hash(password, hashedPassword.rounds, hashedPassword.salt) = hashedPassword

(***************************************************************************)
(* Inputs                                                                  *)
(***************************************************************************)
\* number of distinct salts the hash library can draw
MaxSalt == 2

\* the clock advances in steps of half the session lifetime, this many times
MaxTicks == 3

TickSeconds == 15 * 24 * 60 * 60

\* the Date at which the verified identities were verified
SeedVerified == DateOf(1)

NameAl == <<"A", "l">>

NameA == <<"A">>

\* "r@b.co", "u@b.co", "v@b.co", "n@b.co" and the malformed "n@b"
EmailRoot == <<"r", "@", "b", ".", "c", "o">>

EmailUser == <<"u", "@", "b", ".", "c", "o">>

EmailViewer == <<"v", "@", "b", ".", "c", "o">>

EmailNew == <<"n", "@", "b", ".", "c", "o">>

EmailBad == <<"n", "@", "b">>

\* "n+1@b.co" and "n..m@b.co" (two dots in a row)
EmailPlus == <<"n", "+", "1", "@", "b", ".", "c", "o">>

EmailDots == <<"n", ".", ".", "m", "@", "b", ".", "c", "o">>

\* the addresses the schemas are tried on
LabEmails == {EmailNew, EmailBad, EmailPlus, EmailDots}

\* "Aa345678", "Bb345678", "aa345678" (no uppercase letter) and ""
PwA == <<"A", "a", "3", "4", "5", "6", "7", "8">>

PwB == <<"B", "b", "3", "4", "5", "6", "7", "8">>

PwWeak == <<"a", "a", "3", "4", "5", "6", "7", "8">>

PwEmpty == <<>>

\* the string of n characters c
Rep(c, n) == [i \in 1..n |-> c]

\* passwords around the limits of the schemas and of bcrypt: "a", one short
\* of the minimum, ones lacking a class, 72, 73 and 100 characters, one past
\* the maximum, and one with a line break before its uppercase letter
PwOne == <<"a">>

PwSeven == <<"A", "a", "3", "4", "5", "6", "7">>

PwNoLower == <<"A", "A", "3", "4", "5", "6", "7", "8">>

PwNoDigit == <<"A", "a", "b", "c", "d", "e", "f", "g">>

Pw72 == <<"A", "a", "1">> \o Rep("x", BcryptKeyBytes - 3)

Pw73a == Pw72 \o <<"a">>

Pw73b == Pw72 \o <<"b">>

Pw100 == Pw72 \o Rep("y", PasswordMax - BcryptKeyBytes)

Pw101 == Pw100 \o <<"y">>

PwBreak == <<"a", "b", "c", "d", "e", "f", "g", "h", "\n", "A", "1">>

\* "abcdefgh", U+2028, "A1" and U+2029, "Aa1xxxxx"
PwLineSep == <<"a", "b", "c", "d", "e", "f", "g", "h", LineSeparator, "A", "1">>

PwParaSep == <<ParagraphSeparator, "A", "a", "1", "x", "x", "x", "x", "x">>

\* "aA1x" and 23 times U+2028, and the same with U+2029 in the last place:
\* 27 characters, 73 bytes, the same first 72 bytes
PwWideA == <<"a", "A", "1", "x">> \o Rep(LineSeparator, 23)

PwWideB == <<"a", "A", "1", "x">> \o Rep(LineSeparator, 22) \o <<ParagraphSeparator>>

\* "Aa1", 68 times "x" and U+00E8, and the same with U+00E9 in the last
\* place: 72 characters, 73 bytes, the same first 72 bytes
PwAccentA == <<"A", "a", "1">> \o Rep("x", 68) \o <<EGrave>>

PwAccentB == <<"A", "a", "1">> \o Rep("x", 68) \o <<EAcute>>

\* "Aa345678", U+0000, "Aa345678": read in a circle it gives the bytes that
\* "Aa345678" gives
PwNul == PwA \o <<Nul>> \o PwA

\* "Aa1", 67 times "x" and the euro sign (U+20AC), and the same with the
\* sign after it: 71 characters, 73 bytes, the same first 72 bytes
PwEuroA == <<"A", "a", "1">> \o Rep("x", 67) \o <<"U+20AC">>

PwEuroB == <<"A", "a", "1">> \o Rep("x", 67) \o <<"U+20AD">>

\* "Aa345678" and U+1F600 as its surrogate pair: ten characters, twelve bytes
PwPair == PwA \o <<"U+D83D", "U+DE00">>

LabPasswords ==
    {PwEmpty, PwOne, PwSeven, PwA, PwB, PwWeak, PwNoLower, PwNoDigit,
     Pw72, Pw73a, Pw73b, Pw100, Pw101, PwBreak, PwLineSep, PwParaSep,
     PwWideA, PwWideB, PwAccentA, PwAccentB, PwNul, PwEuroA, PwEuroB,
     PwPair}

SignupCalls == {"s1", "s2"}

Clients == {"c1"}

\* the browsers that hold a cookie jar: the client and a second device
Devices == Clients \cup {"c2"}

\* the credentials both devices log in with
SharedCredentials ==
    { [email |-> EmailRoot, password |-> PwA],
      [email |-> EmailUser, password |-> PwB] }

SignupPayloads ==
    { [name |-> NameAl, email |-> EmailNew,  password |-> PwA],
      [name |-> NameAl, email |-> EmailRoot, password |-> PwA],
      [name |-> NameA,  email |-> EmailRoot, password |-> PwA],
      [name |-> NameAl, email |-> EmailBad,  password |-> PwA],
      [name |-> NameAl, email |-> EmailNew,  password |-> PwWeak] }

\* payloads that pass the schema and carry keys it does not declare
CraftedPayloads ==
    { [name |-> NameAl, email |-> EmailNew, password |-> PwA,
       role |-> "admin", emailVerified |-> SeedVerified] }

LoginCredentials ==
    { [email |-> EmailRoot,   password |-> PwA],
      [email |-> EmailUser,   password |-> PwB],
      [email |-> EmailUser,   password |-> PwA],
      [email |-> EmailViewer, password |-> PwA],
      [email |-> EmailViewer, password |-> PwB],
      [email |-> EmailNew,    password |-> PwA],
      [email |-> EmailBad,    password |-> PwEmpty] }

Roles == {"admin", "user", "viewer"}

\* the allowedRoles arguments requireRole is called with
AllowedRoleSets == { {"admin"}, {"viewer", "admin"}, {} }

(***************************************************************************)
(* lib/db: the users table                                                 *)
(***************************************************************************)
\* the rows with the given email (select().from(users).where(eq(email)))
RowsByEmail(rows, email) == {r \in rows : r.email = email}

\* the results `const [row] = await db.select()...limit(1)` can bind: one of
\* the matching rows, or undefined when none matches
SelectByEmail(rows, email) ==
    IF RowsByEmail(rows, email) = {} THEN {Undefined} ELSE RowsByEmail(rows, email)

\* the ids in the table
Ids(rows) == {r.id : r \in rows}

\* the users table's unique constraint on email
EmailUnique(rows) == \A r1, r2 \in rows : r1.email = r2.email => r1 = r2

\* the row db.insert(users).values(v) stores: the table's defaults fill the
\* columns the caller leaves out
NewRow(id, v) ==
    [id |-> id, name |-> v.name, email |-> v.email, password |-> v.password,
     role |-> v.role, emailVerified |-> Null, image |-> Null, accounts |-> {}]

\* the row the adapter's createUser stores at a first OAuth login: the
\* profile's name, email and image, emailVerified null, no password, the
\* table's default role; accounts are the provider accounts linked to a row
\* (the accounts table)
AdapterRow(id, profile) ==
    [id |-> id, name |-> profile.name, email |-> profile.email, password |-> Null,
     role |-> "user", emailVerified |-> Null, image |-> profile.image, accounts |-> {}]

\* whether the insert is refused: only a table with the unique constraint
\* on email refuses a row, when it has one with that email
InsertViolates(rows, v) == emailConstraint /\ RowsByEmail(rows, v.email) # {}

\* the identities that exist before any sign-up of this run: a verified
\* administrator, an unverified standard user, and a viewer who only ever
\* signed in with Google
SeedUsers ==
    { [id |-> 1, name |-> NameAl, email |-> EmailRoot,
       password |-> hashPassword(PwA, 1), role |-> "admin",
       emailVerified |-> SeedVerified, image |-> Null, accounts |-> {}],
      [id |-> 2, name |-> NameAl, email |-> EmailUser,
       password |-> hashPassword(PwB, MaxSalt), role |-> "user",
       emailVerified |-> Null, image |-> Null, accounts |-> {}],
      [id |-> 3, name |-> NameAl, email |-> EmailViewer,
       password |-> Null, role |-> "viewer",
       emailVerified |-> SeedVerified, image |-> Null, accounts |-> {"g-v"}] }

(***************************************************************************)
(* Messages and results                                                    *)
(***************************************************************************)
\* a plain message string
Msg(text) == [tag |-> "text", text |-> text]

\* ZodError.message: the JSON text of the issues
ZodMessage(issues) == [tag |-> "json", issues |-> issues]

\* the message of the error the driver throws on a unique violation
UniqueViolationMessage == Msg("duplicate key value violates unique constraint")

ConflictMessage == Msg("An account with this email already exists")

SignupCreated ==
    [success |-> TRUE,
     message |-> Msg("Account created successfully! Please check your email to verify your account.")]

Failure(error) == [success |-> FALSE, error |-> error]

InvalidCredentials == Failure(Msg("Invalid email or password"))

SomethingWentWrong == Failure(Msg("Something went wrong. Please try again."))

UnexpectedMessage == Msg("An unexpected error occurred. Please try again.")

\* a thrown Error object with its message
ErrorOf(message) == [instanceofError |-> TRUE, message |-> message]

\* the errors the driver throws when a query cannot be run
StoreErrors == {ErrorOf(Msg("connect ECONNREFUSED 127.0.0.1:5432"))}

(***************************************************************************)
(* auth.ts: the Auth.js configuration                                      *)
(***************************************************************************)
\* authorize returning the stored row as it is
AuthorizedUserRow(user) == user

\* the object authorize returns for an accepted login
AuthorizedUser(user) ==
    [id |-> user.id, email |-> user.email, name |-> user.name, image |-> user.image,
     role |-> user.role, emailVerified |-> user.emailVerified]

\* the token Auth.js hands to the jwt callback at sign-in
DefaultToken(user) ==
    [name |-> user.name, email |-> user.email, picture |-> user.image, sub |-> user.id]

\* a jwt callback that on an update reads emailVerified of the stored identity
jwtUpdateFromStore(token, user, trigger, session) ==
    LET signedIn == IF Truthy(user)
                    THEN [id |-> user.id, role |-> user.role,
                          emailVerified |-> user.emailVerified] @@ token
                    ELSE token
        stored   == {u \in users : u.id = signedIn.id}
    IN  IF trigger = "update" /\ Truthy(session) /\ stored # {}
        THEN [emailVerified |-> (CHOOSE u \in stored : TRUE).emailVerified] @@ signedIn
        ELSE signedIn

\* a jwt callback that takes emailVerified from the session argument on every
\* update, given or not
jwtUpdateAlways(token, user, trigger, session) ==
    LET signedIn == IF Truthy(user)
                    THEN [id |-> user.id, role |-> user.role,
                          emailVerified |-> user.emailVerified] @@ token
                    ELSE token
    IN  IF trigger = "update"
        THEN [emailVerified |-> Get(session, "emailVerified")] @@ signedIn
        ELSE signedIn

\* callbacks.jwt({ token, user, trigger, session }); user and session are
\* Undefined when Auth.js passes none
jwt(token, user, trigger, session) ==
    LET signedIn == IF Truthy(user)
                    THEN [id |-> user.id, role |-> user.role,
                          emailVerified |-> user.emailVerified] @@ token
                    ELSE token
    IN  IF trigger = "update" /\ Truthy(session)
        THEN [emailVerified |-> Get(session, "emailVerified")] @@ signedIn
        ELSE signedIn

\* the JSON form of a claim value: a Date becomes its ISO string
ToJson(v) == IF v.tag = "Date" THEN IsoOf(v.t) ELSE v

\* session.maxAge, in seconds
SessionMaxAge == 30 * 24 * 60 * 60

\* the claims the session cookie carries: the token as JSON.stringify writes
\* it (an undefined property is left out) and JSON.parse reads it back, stamped
\* with the time of writing and the expiry maxAge later
EncodeToken(token) ==
    LET kept == {f \in DOMAIN token : f = "emailVerified" => token[f] # Undefined}
    IN  [iat |-> now, exp |-> now + SessionMaxAge]
        @@ [f \in kept |-> IF f = "emailVerified" THEN ToJson(token[f]) ELSE token[f]]

\* the seconds by which the decoder lets a token outlive its expiry
ClockTolerance == 15

\* the decoder refuses the token: its expiry has passed by the tolerance
Expired(jar) == jar.exp <= now - ClockTolerance

\* the session object Auth.js builds from the token before the session callback
BaseSession(token) ==
    [tag |-> "session",
     user |-> [name |-> token.name, email |-> token.email, image |-> token.picture]]

\* a session role that falls back to "user" only when the token has no role
\* claim: token.role ?? "user"
SessionRoleNullish(token) ==
    IF "role" \in DOMAIN token THEN token.role ELSE "user"

\* session.user.role = token.role || "user"
SessionRole(token) ==
    IF "role" \in DOMAIN token /\ token.role # "" THEN token.role ELSE "user"

\* callbacks.session({ session, token })
sessionCallback(session, token) ==
    IF Truthy(session.user) /\ Truthy(token)
    THEN [session EXCEPT !.user =
             [id |-> Get(token, "id"), role |-> SessionRole(token),
              emailVerified |-> Get(token, "emailVerified")] @@ session.user]
    ELSE session

\* a signIn callback that lets only the OAuth providers through
signInCallbackOAuthOnly(account) == account.provider # "credentials"

\* callbacks.signIn({ account })
signInCallback(account) ==
    IF account.provider # "credentials" THEN TRUE ELSE TRUE

\* an auth() that looks the role up in the store on every request
authStoredRole(jar) ==
    IF jar = Null \/ Expired(jar)
    THEN Null
    ELSE LET stored == {u \in users : u.id = jar.id}
             token  == IF stored = {}
                       THEN jar
                       ELSE [jar EXCEPT !.role = (CHOOSE u \in stored : TRUE).role]
         IN  sessionCallback(BaseSession(token), jwt(token, Undefined, "none", Undefined))

\* auth(): the session of the request carrying the cookie jar, null without a
\* valid token
auth(jar) ==
    IF jar = Null \/ Expired(jar)
    THEN Null
    ELSE sessionCallback(BaseSession(jar), jwt(jar, Undefined, "none", Undefined))

(***************************************************************************)
(* lib/auth/session.ts: the route guards                                   *)
(***************************************************************************)
\* redirect(to) throws; nothing after it runs
Redirect(to) == [tag |-> "redirect", to |-> to]

Return(value) == [tag |-> "return", value |-> value]

\* session?.user is truthy
HasUser(session) == Truthy(session) /\ Truthy(session.user)

\* a guard that lets the request through without a session
requireAuthUnchecked(session) == Return(session)

requireAuth(session) ==
    IF ~HasUser(session) THEN Redirect("/login") ELSE Return(session)

\* the role check before the authentication check
requireRoleFirst(allowedRoles, session) ==
    IF ~HasUser(session) \/ session.user.role \notin allowedRoles
    THEN Redirect("/unauthorized")
    ELSE Return(session)

requireRole(allowedRoles, session) ==
    LET authed == requireAuth(session)
    IN  IF authed.tag = "redirect" THEN authed
        ELSE IF authed.value.user.role \notin allowedRoles THEN Redirect("/unauthorized")
        ELSE Return(authed.value)

\* the verification check inverted
requireEmailVerifiedInverted(session) ==
    LET authed == requireAuth(session)
    IN  IF authed.tag = "redirect" THEN authed
        ELSE IF Truthy(authed.value.user.emailVerified) THEN Redirect("/verify-email")
        ELSE Return(authed.value)

requireEmailVerified(session) ==
    LET authed == requireAuth(session)
    IN  IF authed.tag = "redirect" THEN authed
        ELSE IF ~Truthy(authed.value.user.emailVerified) THEN Redirect("/verify-email")
        ELSE Return(authed.value)

\* an optional check that redirects like requireAuth
getOptionalAuthRedirecting(session) ==
    IF ~HasUser(session) THEN Redirect("/login") ELSE Return(session)

getOptionalAuth(session) == Return(session)

\* app/dashboard/page.tsx: redirect, or render the page for the session
DashboardPage(session) ==
    IF ~HasUser(session) THEN Redirect("/login") ELSE [tag |-> "render", value |-> session]

(***************************************************************************)
(* State                                                                   *)
(*   users   the rows of the users table                                   *)
(*   nextId  the id the table gives the next inserted row                  *)
(*   su      signUpAction calls: position and local variables              *)
(*   li      signInWithCredentials calls, one per client                   *)
(*   cookie  each client's session cookie (the encoded token) or Null      *)
(*   req     the request just answered (by a guard, or by the session      *)
(*           endpoint for a read or an update) and its outcome, or Null    *)
(*   seen    history: the results clients have been given for rejected     *)
(*           logins, with the reason authorize rejected them               *)
(*   lab     the password functions and schemas applied on their own       *)
(*   now     the clock, in seconds                                         *)
(*   oauth   Google sign-ins, one per client: position in the callback     *)
(*           handler and what it has read so far                           *)
(*   pending the requests to the session endpoint a client has under way,  *)
(*           an update and a read at most: the cookie the handler read,    *)
(*           and the payload of an update                                  *)
(*   emailConstraint  whether the users table refuses a second row with    *)
(*           an email it has (the table's definition is not in the code    *)
(*           at hand, so both are possible)                                *)
(*   (calledWith records the ids in the table when the call was made, at   *)
(*   the time a login was accepted, steps the steps authorize has run)     *)
(***************************************************************************)
IdleSignup ==
    [pc |-> "idle", data |-> Null, existingUser |-> Undefined,
     validatedData |-> Null, hashedPassword |-> Null, caught |-> Null, result |-> Null,
     calledWith |-> {}]

IdleSignIn ==
    [pc |-> "idle", credentials |-> Null, user |-> Undefined,
     authorized |-> Null, caught |-> Null, thrown |-> Null, at |-> Null,
     result |-> Null, calledWith |-> {}, steps |-> <<>>]

\* no request to the session endpoint under way: neither an update nor a read
NoRequest == [update |-> Null, session |-> Null]

\* no Google sign-in under way; error names what the last one threw
IdleOAuth ==
    [pc |-> "idle", profile |-> Null, session |-> Null, user |-> Null, error |-> Null]

\* the functions under test, not yet applied
IdleLab ==
    [email |-> EmailNew,
     password |-> Null, other |-> Null, hashed |-> Null, hashedOther |-> Null,
     hashedElsewhere |-> Null,
     same |-> Null, cross |-> Null, elsewhere |-> Null, signup |-> Null, login |-> Null]

Init ==
    /\ users = SeedUsers
    /\ nextId = Cardinality(SeedUsers) + 1
    /\ su = [s \in SignupCalls |-> IdleSignup]
    /\ li = [c \in Devices |-> IdleSignIn]
    /\ oauth = [c \in Devices |-> IdleOAuth]
    /\ pending = [c \in Devices |-> NoRequest]
    /\ emailConstraint \in BOOLEAN
    /\ cookie = [c \in Devices |-> Null]
    /\ req = Null
    /\ seen = {}
    /\ lab = IdleLab
    /\ now = 0

(***************************************************************************)
(* app/actions/auth.ts: signUpAction, one action per awaited step          *)
(***************************************************************************)
\* the catch block: the message of an Error, the generic message for any
\* other thrown value
signUpCatch(error) ==
    IF error.instanceofError THEN Failure(error.message) ELSE Failure(UnexpectedMessage)

\* the call and signupSchema.parse(data)
SignUpParse(s, data) ==
    /\ su[s].pc = "idle"
    /\ LET issues == signupSchema(data)
       IN  su' = [su EXCEPT ![s] =
                IF issues # <<>>
                THEN [@ EXCEPT !.pc = "done", !.data = data, !.calledWith = Ids(users),
                               !.caught = ErrorOf(ZodMessage(issues)),
                               !.result = signUpCatch(ErrorOf(ZodMessage(issues)))]
                ELSE [@ EXCEPT !.pc = "lookup", !.data = data, !.calledWith = Ids(users),
                               !.validatedData = Validated(data)]]
    /\ UNCHANGED <<users, nextId, li, cookie, seen, lab, now, oauth, pending, emailConstraint>>
    /\ req' = Null

\* a sign-up that hashes the password before it looks the email up
SignUpLookupHashedFirst(s) ==
    /\ su[s].pc = "lookup"
    /\ \E existingUser \in SelectByEmail(users, su[s].validatedData.email) :
          su' = [su EXCEPT ![s] =
                IF Truthy(existingUser)
                THEN [@ EXCEPT !.pc = "done", !.existingUser = existingUser,
                               !.hashedPassword = hashPassword(su[s].validatedData.password, 1),
                               !.result = Failure(ConflictMessage)]
                ELSE [@ EXCEPT !.pc = "hash", !.existingUser = existingUser]]
    /\ UNCHANGED <<users, nextId, li, cookie, seen, lab, now, oauth, pending, emailConstraint>>
    /\ req' = Null

\* the lookup without the `if (existingUser)` return
SignUpLookupUnchecked(s) ==
    /\ su[s].pc = "lookup"
    /\ \E existingUser \in SelectByEmail(users, su[s].validatedData.email) :
          su' = [su EXCEPT ![s] = [@ EXCEPT !.pc = "hash", !.existingUser = existingUser]]
    /\ UNCHANGED <<users, nextId, li, cookie, seen, lab, now, oauth, pending, emailConstraint>>
    /\ req' = Null

\* the lookup under a lock per email that is held until the insert
SignUpLookupLocked(s) ==
    /\ su[s].pc = "lookup"
    /\ \A t \in SignupCalls \ {s} :
          ~(su[t].pc \in {"hash", "insert"} /\ su[t].validatedData.email = su[s].validatedData.email)
    /\ \E existingUser \in SelectByEmail(users, su[s].validatedData.email) :
          su' = [su EXCEPT ![s] =
                IF Truthy(existingUser)
                THEN [@ EXCEPT !.pc = "done", !.existingUser = existingUser,
                               !.result = Failure(ConflictMessage)]
                ELSE [@ EXCEPT !.pc = "hash", !.existingUser = existingUser]]
    /\ UNCHANGED <<users, nextId, li, cookie, seen, lab, now, oauth, pending, emailConstraint>>
    /\ req' = Null

\* await db.select().from(users).where(eq(users.email, validatedData.email)).limit(1)
\* and the `if (existingUser)` return
SignUpLookup(s) ==
    /\ su[s].pc = "lookup"
    /\ \E existingUser \in SelectByEmail(users, su[s].validatedData.email) :
          su' = [su EXCEPT ![s] =
                IF Truthy(existingUser)
                THEN [@ EXCEPT !.pc = "done", !.existingUser = existingUser,
                               !.result = Failure(ConflictMessage)]
                ELSE [@ EXCEPT !.pc = "hash", !.existingUser = existingUser]]
    /\ UNCHANGED <<users, nextId, li, cookie, seen, lab, now, oauth, pending, emailConstraint>>
    /\ req' = Null

\* await hashPassword(validatedData.password)
SignUpHash(s) ==
    /\ su[s].pc = "hash"
    /\ \E salt \in 1..MaxSalt :
          su' = [su EXCEPT ![s] = [@ EXCEPT !.pc = "insert",
                    !.hashedPassword = hashPassword(su[s].validatedData.password, salt)]]
    /\ UNCHANGED <<users, nextId, li, cookie, seen, lab, now, oauth, pending, emailConstraint>>
    /\ req' = Null

\* the insert with the role of an administrator
SignUpValuesAdmin(data, hashedPassword) ==
    [name |-> data.name, email |-> data.email, password |-> hashedPassword, role |-> "admin"]

\* the values signUpAction inserts
SignUpValues(data, hashedPassword) ==
    [name |-> data.name, email |-> data.email, password |-> hashedPassword, role |-> "user"]

\* await db.insert(users).values(...) and the return
SignUpInsert(s) ==
    /\ su[s].pc = "insert"
    /\ LET v == SignUpValues(su[s].validatedData, su[s].hashedPassword)
       IN  IF InsertViolates(users, v)
           THEN /\ su' = [su EXCEPT ![s] = [@ EXCEPT !.pc = "done",
                              !.caught = ErrorOf(UniqueViolationMessage),
                              !.result = signUpCatch(ErrorOf(UniqueViolationMessage))]]
                /\ UNCHANGED <<users, nextId>>
           ELSE /\ users' = users \cup {NewRow(nextId, v)}
                /\ nextId' = nextId + 1
                /\ su' = [su EXCEPT ![s] = [@ EXCEPT !.pc = "done",
                              !.result = SignupCreated]]
    /\ UNCHANGED <<li, cookie, seen, lab, now, oauth, pending, emailConstraint>>
    /\ req' = Null

\* the lookup query rejects: the catch block answers
SignUpLookupThrows(s, error) ==
    /\ su[s].pc = "lookup"
    /\ su' = [su EXCEPT ![s] = [@ EXCEPT !.pc = "done", !.caught = error,
                                         !.result = signUpCatch(error)]]
    /\ UNCHANGED <<users, nextId, li, cookie, seen, lab, now, oauth, pending, emailConstraint>>
    /\ req' = Null

\* the insert rejects for a reason other than the unique constraint: no row
\* is stored and the catch block answers
SignUpInsertThrows(s, error) ==
    /\ su[s].pc = "insert"
    /\ su' = [su EXCEPT ![s] = [@ EXCEPT !.pc = "done", !.caught = error,
                                         !.result = signUpCatch(error)]]
    /\ UNCHANGED <<users, nextId, li, cookie, seen, lab, now, oauth, pending, emailConstraint>>
    /\ req' = Null

(***************************************************************************)
(* Credential login: signInWithCredentials -> signIn -> authorize          *)
(***************************************************************************)
\* what signIn("credentials", ...) throws once authorize has returned: the
\* CredentialsSignin AuthError for null, AccessDenied when the signIn callback
\* refuses, else the framework's redirect signal
signInThrows(authorized) ==
    IF ~Truthy(authorized)
    THEN [authError |-> TRUE, type |-> "CredentialsSignin"]
    ELSE IF ~signInCallback([provider |-> "credentials"])
    THEN [authError |-> TRUE, type |-> "AccessDenied"]
    ELSE [authError |-> FALSE, type |-> "NEXT_REDIRECT"]

\* a catch block that turns every error but CredentialsSignin into the
\* generic failure
signInWithCredentialsCatchAll(error) ==
    IF error.authError /\ error.type = "CredentialsSignin"
    THEN InvalidCredentials
    ELSE SomethingWentWrong

\* the catch block of signInWithCredentials: a result, or the error re-thrown
signInWithCredentialsCatch(error) ==
    IF error.authError
    THEN IF error.type = "CredentialsSignin" THEN InvalidCredentials ELSE SomethingWentWrong
    ELSE [thrown |-> error.type]

\* what the client gets once authorize has returned
signInWithCredentialsResult(authorized) ==
    signInWithCredentialsCatch(signInThrows(authorized))

\* the cookie after signIn: set from the jwt callback's token when the
\* sign-in went through, else left as it was
CookieAfterSignIn(old, user, provider) ==
    IF Truthy(user) /\ signInCallback([provider |-> provider])
    THEN EncodeToken(jwt(DefaultToken(user), user, "signIn", Undefined))
    ELSE old

\* why authorize rejected a finished call that passed validation
RejectionReason(call) ==
    IF Truthy(call.caught) THEN "threw"
    ELSE IF ~Truthy(call.user) THEN "noIdentity"
    ELSE IF ~Truthy(call.user.password) THEN "noPassword"
    ELSE "wrongPassword"

\* the history entry of a call: its result under the reason, if it was
\* rejected after validation
Rejection(call) ==
    IF call.pc = "done" /\ ~Truthy(call.authorized)
    THEN {[reason |-> RejectionReason(call), result |-> call.result]}
    ELSE {}

\* the call with an authorize that goes on to the lookup whatever the schema
\* says
AuthorizeParseUnchecked(c, credentials) ==
    /\ li[c].pc \in {"idle", "done"}
    /\ li' = [li EXCEPT ![c] =
              [IdleSignIn EXCEPT !.credentials = credentials, !.calledWith = Ids(users),
                                 !.steps = <<"validate">>, !.pc = "lookup"]]
    /\ UNCHANGED <<users, nextId, su, cookie, seen, lab, now, oauth, pending, emailConstraint>>
    /\ req' = Null

\* the call and, in authorize, loginSchema.parse(credentials)
AuthorizeParse(c, credentials) ==
    /\ li[c].pc \in {"idle", "done"}
    /\ LET issues == loginSchema(credentials)
           call   == [IdleSignIn EXCEPT !.credentials = credentials, !.calledWith = Ids(users),
                                        !.steps = <<"validate">>]
       IN  li' = [li EXCEPT ![c] =
                IF issues # <<>>
                THEN [call EXCEPT !.pc = "done",
                                  !.thrown = signInThrows(Null),
                               !.result = signInWithCredentialsResult(Null)]
                ELSE [call EXCEPT !.pc = "lookup"]]
    /\ UNCHANGED <<users, nextId, su, cookie, seen, lab, now, oauth, pending, emailConstraint>>
    /\ req' = Null

\* a lookup that only returns when no identity was found
AuthorizeLookupAnyUser(c) ==
    /\ li[c].pc = "lookup"
    /\ \E user \in SelectByEmail(users, li[c].credentials.email) :
          li' = [li EXCEPT ![c] =
                IF ~Truthy(user)
                THEN [@ EXCEPT !.pc = "done", !.user = user, !.steps = Append(@, "lookup"),
                               !.thrown = signInThrows(Null),
                               !.result = signInWithCredentialsResult(Null)]
                ELSE [@ EXCEPT !.pc = "verify", !.user = user, !.steps = Append(@, "lookup")]]
    /\ seen' = seen \cup Rejection(li'[c])
    /\ UNCHANGED <<users, nextId, su, cookie, lab, now, oauth, pending, emailConstraint>>
    /\ req' = Null

\* a lookup that tells the client when the email has no identity
AuthorizeLookupTelling(c) ==
    /\ li[c].pc = "lookup"
    /\ \E user \in SelectByEmail(users, li[c].credentials.email) :
          li' = [li EXCEPT ![c] =
                IF ~Truthy(user)
                THEN [@ EXCEPT !.pc = "done", !.user = user, !.steps = Append(@, "lookup"),
                               !.result = Failure(Msg("No account found for this email"))]
                ELSE IF ~Truthy(user.password)
                THEN [@ EXCEPT !.pc = "done", !.user = user, !.steps = Append(@, "lookup"),
                               !.thrown = signInThrows(Null),
                               !.result = signInWithCredentialsResult(Null)]
                ELSE [@ EXCEPT !.pc = "verify", !.user = user, !.steps = Append(@, "lookup")]]
    /\ seen' = seen \cup Rejection(li'[c])
    /\ UNCHANGED <<users, nextId, su, cookie, lab, now, oauth, pending, emailConstraint>>
    /\ req' = Null

\* await db.select().from(users).where(eq(users.email, email)).limit(1) and
\* the `if (!user || !user.password)` return
AuthorizeLookup(c) ==
    /\ li[c].pc = "lookup"
    /\ \E user \in SelectByEmail(users, li[c].credentials.email) :
          li' = [li EXCEPT ![c] =
                IF ~Truthy(user) \/ ~Truthy(user.password)
                THEN [@ EXCEPT !.pc = "done", !.user = user, !.steps = Append(@, "lookup"),
                               !.thrown = signInThrows(Null),
                               !.result = signInWithCredentialsResult(Null)]
                ELSE [@ EXCEPT !.pc = "verify", !.user = user, !.steps = Append(@, "lookup")]]
    /\ seen' = seen \cup Rejection(li'[c])
    /\ UNCHANGED <<users, nextId, su, cookie, lab, now, oauth, pending, emailConstraint>>
    /\ req' = Null

\* await verifyPassword(password, user.password), the return of authorize and
\* the rest of signIn
AuthorizeVerify(c) ==
    /\ li[c].pc = "verify"
    /\ LET isValidPassword == verifyPassword(li[c].credentials.password, li[c].user.password)
           authorized      == IF isValidPassword THEN AuthorizedUser(li[c].user) ELSE Null
       IN  /\ li' = [li EXCEPT ![c] = [@ EXCEPT !.pc = "done", !.authorized = authorized,
                         !.steps = Append(@, "verify"),
                         !.at = IF isValidPassword THEN [time |-> now] ELSE Null,
                         !.thrown = signInThrows(authorized),
                         !.result = signInWithCredentialsResult(authorized)]]
           /\ cookie' = [cookie EXCEPT ![c] = CookieAfterSignIn(@, authorized, "credentials")]
    /\ seen' = seen \cup Rejection(li'[c])
    /\ UNCHANGED <<users, nextId, su, lab, now, oauth, pending, emailConstraint>>
    /\ req' = Null

\* the errors bcrypt's compare throws
CompareErrors == {ErrorOf(Msg("Illegal arguments: string, object"))}

\* the catch block of authorize: null, whatever was thrown
authorizeCatch(error) == Null

\* the select of authorize rejects without the try/catch around it: Auth.js
\* wraps what authorize threw
AuthorizeLookupThrowsUncaught(c, error) ==
    /\ li[c].pc = "lookup"
    /\ li' = [li EXCEPT ![c] = [@ EXCEPT !.pc = "done", !.steps = Append(@, "lookup"),
                 !.caught = error,
                 !.thrown = [authError |-> TRUE, type |-> "CallbackRouteError"],
                 !.result = signInWithCredentialsCatch(
                                [authError |-> TRUE, type |-> "CallbackRouteError"])]]
    /\ seen' = seen \cup Rejection(li'[c])
    /\ UNCHANGED <<users, nextId, su, cookie, lab, now, oauth, pending, emailConstraint>>
    /\ req' = Null

\* the select of authorize rejects: the catch block returns null
AuthorizeLookupThrows(c, error) ==
    /\ li[c].pc = "lookup"
    /\ li' = [li EXCEPT ![c] = [@ EXCEPT !.pc = "done", !.steps = Append(@, "lookup"),
                 !.caught = error,
                 !.authorized = authorizeCatch(error),
                 !.thrown = signInThrows(authorizeCatch(error)),
                 !.result = signInWithCredentialsResult(authorizeCatch(error))]]
    /\ seen' = seen \cup Rejection(li'[c])
    /\ UNCHANGED <<users, nextId, su, cookie, lab, now, oauth, pending, emailConstraint>>
    /\ req' = Null

\* verifyPassword throws: the catch block returns null
AuthorizeVerifyThrows(c, error) ==
    /\ li[c].pc = "verify"
    /\ li' = [li EXCEPT ![c] = [@ EXCEPT !.pc = "done", !.steps = Append(@, "verify"),
                 !.caught = error,
                 !.authorized = authorizeCatch(error),
                 !.thrown = signInThrows(authorizeCatch(error)),
                 !.result = signInWithCredentialsResult(authorizeCatch(error))]]
    /\ seen' = seen \cup Rejection(li'[c])
    /\ UNCHANGED <<users, nextId, su, cookie, lab, now, oauth, pending, emailConstraint>>
    /\ req' = Null

\* what signIn can throw besides the outcome of authorize: another AuthError,
\* or an error that is no AuthError
SignInErrors ==
    { [authError |-> TRUE,  type |-> "Configuration"],
      [authError |-> FALSE, type |-> "TypeError"] }

\* signIn throws before authorize has answered
SignInFails(c, error) ==
    /\ li[c].pc = "lookup"
    /\ li' = [li EXCEPT ![c] = [@ EXCEPT !.pc = "done", !.thrown = error,
                                         !.result = signInWithCredentialsCatch(error)]]
    /\ UNCHANGED <<users, nextId, su, cookie, seen, lab, now, oauth, pending, emailConstraint>>
    /\ req' = Null

(***************************************************************************)
(* Other ways the cookie changes                                           *)
(***************************************************************************)
\* the Google accounts that sign in: the viewer's linked one, one whose email
\* has no identity yet, and one whose email belongs to an identity that has
\* no Google account linked
GoogleProfiles ==
    { [sub |-> "g-v", email |-> EmailViewer, name |-> NameAl, image |-> Null],
      [sub |-> "g-n", email |-> EmailNew,    name |-> NameAl,
       image |-> [tag |-> "url", of |-> EmailNew]],
      [sub |-> "g-u", email |-> EmailUser,   name |-> NameAl, image |-> Null] }

\* the Google accounts that are linked to an identity from the start
LinkedProfiles == {p \in GoogleProfiles : \E u \in SeedUsers : p.sub \in u.accounts}

\* the callback handler is done, with the error it threw or none
OAuthDone(error) == [IdleOAuth EXCEPT !.error = error]

\* signInWithGoogle: signIn("google") sends the browser to the provider and
\* changes nothing else
signInWithGoogle(c) ==
    /\ oauth[c].pc = "idle"
    /\ oauth' = [oauth EXCEPT ![c] = [IdleOAuth EXCEPT !.pc = "provider"]]
    /\ req' = Null
    /\ UNCHANGED <<users, nextId, su, li, cookie, seen, lab, now, pending, emailConstraint>>

\* GET /api/auth/callback/google with the profile the provider vouches for:
\* the handler first reads the identity of the session the browser holds,
\* none when the token is missing or expired
GoogleCallback(c, profile) ==
    /\ oauth[c].pc = "provider"
    /\ LET held == IF cookie[c] = Null \/ Expired(cookie[c])
                   THEN {}
                   ELSE {u \in users : u.id = cookie[c].sub}
       IN  oauth' = [oauth EXCEPT ![c] =
                        [@ EXCEPT !.pc = "account", !.profile = profile,
                                  !.session = IF held = {} THEN Null
                                              ELSE CHOOSE u \in held : TRUE]]
    /\ req' = Null
    /\ UNCHANGED <<users, nextId, su, li, cookie, seen, lab, now, pending, emailConstraint>>

\* the handler looks the provider account up: an account linked to the
\* identity signed in, or to any identity when nobody is signed in, signs that
\* identity in; one linked to another identity is refused; an unknown account
\* is linked to the identity signed in, or goes on to the email lookup
GoogleCallbackAccount(c) ==
    /\ oauth[c].pc = "account"
    /\ LET o     == oauth[c]
           found == {u \in users : o.profile.sub \in u.accounts}
           owner == CHOOSE u \in found : TRUE
       IN  oauth' = [oauth EXCEPT ![c] =
              IF found # {}
              THEN IF o.session # Null /\ o.session.id # owner.id
                   THEN OAuthDone([authError |-> TRUE, type |-> "OAuthAccountNotLinked"])
                   ELSE [o EXCEPT !.pc = "issue", !.user = owner]
              ELSE IF o.session # Null
                   THEN [o EXCEPT !.pc = "link", !.user = o.session]
                   ELSE [o EXCEPT !.pc = "email"]]
    /\ req' = Null
    /\ UNCHANGED <<users, nextId, su, li, cookie, seen, lab, now, pending, emailConstraint>>

\* the handler looks the profile's email up: an identity that has the email
\* but not the account is not linked to it, the sign-in is refused
GoogleCallbackEmail(c) ==
    /\ oauth[c].pc = "email"
    /\ oauth' = [oauth EXCEPT ![c] =
                    IF RowsByEmail(users, @.profile.email) # {}
                    THEN OAuthDone([authError |-> TRUE, type |-> "OAuthAccountNotLinked"])
                    ELSE [@ EXCEPT !.pc = "create"]]
    /\ req' = Null
    /\ UNCHANGED <<users, nextId, su, li, cookie, seen, lab, now, pending, emailConstraint>>

\* the adapter's createUser: the identity of a first Google login
GoogleCallbackCreate(c) ==
    /\ oauth[c].pc = "create"
    /\ LET o   == oauth[c]
           row == AdapterRow(nextId, o.profile)
       IN  IF InsertViolates(users, row)
           THEN /\ oauth' = [oauth EXCEPT ![c] = OAuthDone([authError |-> TRUE, type |-> "AdapterError"])]
                /\ UNCHANGED <<users, nextId>>
           ELSE /\ users' = users \cup {row}
                /\ nextId' = nextId + 1
                /\ oauth' = [oauth EXCEPT ![c] = [o EXCEPT !.pc = "link", !.user = row]]
    /\ req' = Null
    /\ UNCHANGED <<su, li, cookie, seen, lab, now, pending, emailConstraint>>

\* the adapter's linkAccount: the provider account becomes an account of the
\* identity; an account can be linked once
GoogleCallbackLink(c) ==
    /\ oauth[c].pc = "link"
    /\ LET o == oauth[c]
       IN  IF \E u \in users : o.profile.sub \in u.accounts
           THEN /\ oauth' = [oauth EXCEPT ![c] = OAuthDone([authError |-> TRUE, type |-> "AdapterError"])]
                /\ UNCHANGED users
           ELSE /\ users' = { IF u.id = o.user.id
                              THEN [u EXCEPT !.accounts = @ \cup {o.profile.sub}]
                              ELSE u : u \in users }
                /\ oauth' = [oauth EXCEPT ![c] = [o EXCEPT !.pc = "issue"]]
    /\ req' = Null
    /\ UNCHANGED <<nextId, su, li, cookie, seen, lab, now, pending, emailConstraint>>

\* the handler runs the signIn and jwt callbacks for the identity and writes
\* the session cookie
GoogleCallbackIssue(c) ==
    /\ oauth[c].pc = "issue"
    /\ cookie' = [cookie EXCEPT ![c] =
                     CookieAfterSignIn(@, AuthorizedUser(oauth[c].user), "google")]
    /\ oauth' = [oauth EXCEPT ![c] = OAuthDone(Null)]
    /\ req' = Null
    /\ UNCHANGED <<users, nextId, su, li, seen, lab, now, pending, emailConstraint>>

\* the session payloads an update is made with; Undefined is an update made
\* without a payload
UpdatePayloads ==
    { [emailVerified |-> Null], [emailVerified |-> ToJson(SeedVerified)], Undefined }

\* a session update arrives at the session endpoint: the handler reads the
\* cookie the request carries
SessionUpdateRequest(c, payload) ==
    /\ pending[c].update = Null
    /\ cookie[c] # Null
    /\ pending' = [pending EXCEPT ![c].update = [payload |-> payload, read |-> cookie[c]]]
    /\ req' = Null
    /\ UNCHANGED <<users, nextId, su, li, cookie, seen, lab, now, oauth, emailConstraint>>

\* the handler of the update has run the jwt callback with trigger "update" on
\* the token it read; it sets the cookie to the result and answers with the
\* session made from it; a token it cannot decode is dropped
SessionUpdate(c) ==
    /\ pending[c].update # Null
    /\ LET read  == pending[c].update.read
           token == IF Expired(read)
                    THEN Null
                    ELSE EncodeToken(jwt(read, Undefined, "update", pending[c].update.payload))
       IN  /\ cookie' = [cookie EXCEPT ![c] = token]
           /\ req' = [client |-> c, guard |-> "update", allowedRoles |-> {},
                      before |-> read, payload |-> pending[c].update.payload,
                      jar |-> token, session |-> auth(token),
                      outcome |-> Return(auth(token))]
    /\ pending' = [pending EXCEPT ![c].update = Null]
    /\ UNCHANGED <<users, nextId, su, li, seen, lab, now, oauth, emailConstraint>>

\* a session read arrives at the session endpoint: the handler reads the
\* cookie the request carries
SessionFetchRequest(c) ==
    /\ pending[c].session = Null
    /\ cookie[c] # Null
    /\ pending' = [pending EXCEPT ![c].session = [read |-> cookie[c]]]
    /\ req' = Null
    /\ UNCHANGED <<users, nextId, su, li, cookie, seen, lab, now, oauth, emailConstraint>>

\* the handler of the read has run the jwt callback on the token it read; it
\* sets the cookie to the token written again with a fresh expiry and answers
\* with the session; a token it cannot decode is dropped
SessionFetch(c) ==
    /\ pending[c].session # Null
    /\ LET read  == pending[c].session.read
           token == IF Expired(read)
                    THEN Null
                    ELSE EncodeToken(jwt(read, Undefined, "none", Undefined))
       IN  /\ cookie' = [cookie EXCEPT ![c] = token]
           /\ req' = [client |-> c, guard |-> "session", allowedRoles |-> {},
                      before |-> read,
                      jar |-> token, session |-> auth(token),
                      outcome |-> Return(auth(token))]
    /\ pending' = [pending EXCEPT ![c].session = Null]
    /\ UNCHANGED <<users, nextId, su, li, seen, lab, now, oauth, emailConstraint>>

\* an administrator of the store gives the identity another role
StoreSetRole(user, role) ==
    /\ user \in users
    /\ role # user.role
    /\ users' = (users \ {user}) \cup {[user EXCEPT !.role = role]}
    /\ req' = Null
    /\ UNCHANGED <<nextId, su, li, cookie, seen, lab, now, oauth, pending, emailConstraint>>

\* time passes: half a session lifetime, or once in between the seconds of
\* the decoder's tolerance
Tick(seconds) ==
    /\ now < MaxTicks * TickSeconds
    /\ seconds = ClockTolerance => now % TickSeconds = 0
    /\ now' = now + seconds
    /\ req' = Null
    /\ UNCHANGED <<users, nextId, su, li, cookie, seen, lab, oauth, pending, emailConstraint>>

\* a sign-out that also ends the sessions of the identity on other devices
SignOutEverywhere(c) ==
    /\ cookie[c] # Null
    /\ cookie' = [d \in DOMAIN cookie |->
                    IF cookie[d] # Null /\ cookie[d].id = cookie[c].id THEN Null ELSE cookie[d]]
    /\ UNCHANGED <<users, nextId, su, li, seen, lab, now, oauth, pending, emailConstraint>>
    /\ req' = Null

\* the dashboard's sign-out form: signOut clears the cookie
SignOut(c) ==
    /\ cookie[c] # Null
    /\ cookie' = [cookie EXCEPT ![c] = Null]
    /\ UNCHANGED <<users, nextId, su, li, seen, lab, now, oauth, pending, emailConstraint>>
    /\ req' = Null

(***************************************************************************)
(* Guarded requests                                                        *)
(***************************************************************************)
Guards == {"requireAuth", "requireRole", "requireEmailVerified", "getOptionalAuth",
           "DashboardPage"}

GuardOutcome(guard, allowedRoles, session) ==
    CASE guard = "requireAuth"          -> requireAuth(session)
      [] guard = "requireRole"          -> requireRole(allowedRoles, session)
      [] guard = "requireEmailVerified" -> requireEmailVerified(session)
      [] guard = "getOptionalAuth"      -> getOptionalAuth(session)
      [] guard = "DashboardPage"        -> DashboardPage(session)

\* a request of client c to an entry point protected by the guard
Request(c, guard, allowedRoles) ==
    /\ guard = "requireRole" \/ allowedRoles = {}
    /\ req' = [client |-> c, guard |-> guard, allowedRoles |-> allowedRoles,
               jar |-> cookie[c], session |-> auth(cookie[c]),
               outcome |-> GuardOutcome(guard, allowedRoles, auth(cookie[c]))]
    /\ UNCHANGED <<users, nextId, su, li, cookie, seen, lab, now, oauth, pending, emailConstraint>>

(***************************************************************************)
(* The password functions and the schemas on their own                     *)
(***************************************************************************)
\* a password to test and another one to test it against
LabInit ==
    /\ users = SeedUsers
    /\ nextId = Cardinality(SeedUsers) + 1
    /\ su = [s \in SignupCalls |-> IdleSignup]
    /\ li = [c \in Devices |-> IdleSignIn]
    /\ oauth = [c \in Devices |-> IdleOAuth]
    /\ pending = [c \in Devices |-> NoRequest]
    /\ emailConstraint = TRUE
    /\ cookie = [c \in Devices |-> Null]
    /\ req = Null
    /\ seen = {}
    /\ now = 0
    /\ \E p \in LabPasswords, q \in LabPasswords :
          lab = [IdleLab EXCEPT !.password = p, !.other = q]

\* the cost of a hash that was not made by hashPassword
OtherRounds == 10

\* hashPassword of both passwords, each with the salt the library draws, and
\* a hash of the password made elsewhere with another cost
LabHash(salt, saltOther) ==
    /\ lab.hashed = Null
    /\ lab' = [lab EXCEPT !.hashed = hashPassword(lab.password, salt),
                          !.hashedOther = hashPassword(lab.other, saltOther),
                          !.hashedElsewhere = hash(lab.password, OtherRounds, salt)]
    /\ UNCHANGED <<users, nextId, su, li, cookie, req, seen, now, oauth, pending, emailConstraint>>

\* verifyPassword of the password against its own hash, the other's and the
\* one made elsewhere
LabVerify ==
    /\ lab.hashed # Null
    /\ lab.same = Null
    /\ lab' = [lab EXCEPT !.same = [value |-> verifyPassword(lab.password, lab.hashed)],
                          !.cross = [value |-> verifyPassword(lab.password, lab.hashedOther)],
                          !.elsewhere = [value |-> verifyPassword(lab.password,
                                                                  lab.hashedElsewhere)]]
    /\ UNCHANGED <<users, nextId, su, li, cookie, req, seen, now, oauth, pending, emailConstraint>>

\* signupSchema.parse of a payload with the password
LabSignupSchema ==
    /\ lab.signup = Null
    /\ lab' = [lab EXCEPT !.signup =
                  [issues |-> signupSchema([name |-> NameAl, email |-> lab.email,
                                            password |-> lab.password])]]
    /\ UNCHANGED <<users, nextId, su, li, cookie, req, seen, now, oauth, pending, emailConstraint>>

\* loginSchema.parse of credentials with the password
LabLoginSchema ==
    /\ lab.login = Null
    /\ lab' = [lab EXCEPT !.login =
                  [issues |-> loginSchema([email |-> lab.email, password |-> lab.password])]]
    /\ UNCHANGED <<users, nextId, su, li, cookie, req, seen, now, oauth, pending, emailConstraint>>

(***************************************************************************)
(* Specifications                                                          *)
(***************************************************************************)
\* sign-ups racing each other and a client logging in
Next ==
    \/ \E s \in SignupCalls, data \in SignupPayloads : SignUpParse(s, data)
    \/ \E s \in SignupCalls : SignUpLookup(s)
    \/ \E s \in SignupCalls : SignUpHash(s)
    \/ \E s \in SignupCalls : SignUpInsert(s)
    \/ \E c \in Clients, credentials \in LoginCredentials : AuthorizeParse(c, credentials)
    \/ \E c \in Clients : AuthorizeLookup(c)
    \/ \E c \in Clients : AuthorizeVerify(c)

Spec == Init /\ [][Next]_vars

\* the start of the specifications in which no row is inserted: the
\* constraint plays no part in them
InitNoInsert == Init /\ emailConstraint

\* a client signing in and out, updating its session and making requests
SessionNext ==
    \/ \E c \in Clients, credentials \in LoginCredentials : AuthorizeParse(c, credentials)
    \/ \E c \in Clients : AuthorizeLookup(c)
    \/ \E c \in Clients : AuthorizeVerify(c)
    \/ \E c \in Clients, payload \in UpdatePayloads : SessionUpdateRequest(c, payload)
    \/ \E c \in Clients : SessionUpdate(c)
    \/ \E c \in Clients : SessionFetchRequest(c)
    \/ \E c \in Clients : SessionFetch(c)
    \/ \E c \in Clients : SignOut(c)
    \/ \E c \in Clients, guard \in Guards, allowedRoles \in AllowedRoleSets :
          Request(c, guard, allowedRoles)

SessionSpec == InitNoInsert /\ [][SessionNext]_vars

\* the guards of the pages a signed-in client asks for
SignInGuards == {"requireAuth", "requireRole", "DashboardPage"}

\* a client signing in with its password or with a linked Google account,
\* reading and updating its session, signing out and requesting pages, the
\* requests of several tabs under way at once
SignInNext ==
    \/ \E c \in Clients, credentials \in SharedCredentials : AuthorizeParse(c, credentials)
    \/ \E c \in Clients : AuthorizeLookup(c)
    \/ \E c \in Clients : AuthorizeVerify(c)
    \/ \E c \in Clients : signInWithGoogle(c)
    \/ \E c \in Clients, profile \in LinkedProfiles : GoogleCallback(c, profile)
    \/ \E c \in Clients : GoogleCallbackAccount(c)
    \/ \E c \in Clients : GoogleCallbackIssue(c)
    \/ \E c \in Clients, payload \in UpdatePayloads : SessionUpdateRequest(c, payload)
    \/ \E c \in Clients : SessionUpdate(c)
    \/ \E c \in Clients : SessionFetchRequest(c)
    \/ \E c \in Clients : SessionFetch(c)
    \/ \E c \in Clients : SignOut(c)
    \/ \E c \in Clients, guard \in SignInGuards, allowedRoles \in AllowedRoleSets :
          Request(c, guard, allowedRoles)

SignInSpec == InitNoInsert /\ [][SignInNext]_vars

\* a client signing in and requesting role-guarded pages while roles are
\* edited in the store
EditNext ==
    \/ \E c \in Clients, credentials \in LoginCredentials : AuthorizeParse(c, credentials)
    \/ \E c \in Clients : AuthorizeLookup(c)
    \/ \E c \in Clients : AuthorizeVerify(c)
    \/ \E c \in Clients, allowedRoles \in AllowedRoleSets :
          Request(c, "requireRole", allowedRoles)
    \/ \E user \in users, role \in Roles : StoreSetRole(user, role)

EditSpec == InitNoInsert /\ [][EditNext]_vars

\* sign-ups racing each other, some with crafted payloads, while the store
\* may fail a query
FaultNext ==
    \/ \E s \in SignupCalls, data \in SignupPayloads \cup CraftedPayloads : SignUpParse(s, data)
    \/ \E s \in SignupCalls : SignUpLookup(s)
    \/ \E s \in SignupCalls : SignUpHash(s)
    \/ \E s \in SignupCalls : SignUpInsert(s)
    \/ \E s \in SignupCalls, error \in StoreErrors : SignUpLookupThrows(s, error)
    \/ \E s \in SignupCalls, error \in StoreErrors : SignUpInsertThrows(s, error)

FaultSpec == Init /\ [][FaultNext]_vars

\* a client signing in, reading its session and making requests while time
\* passes
ExpiryNext ==
    \/ \E c \in Clients, credentials \in SharedCredentials : AuthorizeParse(c, credentials)
    \/ \E c \in Clients : AuthorizeLookup(c)
    \/ \E c \in Clients : AuthorizeVerify(c)
    \/ \E c \in Clients : SessionFetchRequest(c)
    \/ \E c \in Clients : SessionFetch(c)
    \/ \E c \in Clients : SignOut(c)
    \/ \E c \in Clients : Request(c, "requireAuth", {})
    \/ \E seconds \in {TickSeconds, ClockTolerance} : Tick(seconds)

ExpirySpec == InitNoInsert /\ [][ExpiryNext]_vars

\* a client logging in while the store, the hash library or the framework
\* may throw
LoginFaultNext ==
    \/ \E c \in Clients, credentials \in LoginCredentials : AuthorizeParse(c, credentials)
    \/ \E c \in Clients : AuthorizeLookup(c)
    \/ \E c \in Clients : AuthorizeVerify(c)
    \/ \E c \in Clients, error \in StoreErrors : AuthorizeLookupThrows(c, error)
    \/ \E c \in Clients, error \in CompareErrors : AuthorizeVerifyThrows(c, error)
    \/ \E c \in Clients, error \in SignInErrors : SignInFails(c, error)

LoginFaultSpec == InitNoInsert /\ [][LoginFaultNext]_vars

\* a client signing in with Google accounts, linked or not, with or without
\* a session of a password login, signing out and requesting a guarded page
OAuthNext ==
    \/ \E c \in Clients, credentials \in SharedCredentials : AuthorizeParse(c, credentials)
    \/ \E c \in Clients : AuthorizeLookup(c)
    \/ \E c \in Clients : AuthorizeVerify(c)
    \/ \E c \in Clients : signInWithGoogle(c)
    \/ \E c \in Clients, profile \in GoogleProfiles : GoogleCallback(c, profile)
    \/ \E c \in Clients : GoogleCallbackAccount(c)
    \/ \E c \in Clients : GoogleCallbackEmail(c)
    \/ \E c \in Clients : GoogleCallbackCreate(c)
    \/ \E c \in Clients : GoogleCallbackLink(c)
    \/ \E c \in Clients : GoogleCallbackIssue(c)
    \/ \E c \in Clients : SignOut(c)
    \/ \E c \in Clients : Request(c, "requireAuth", {})

OAuthSpec == Init /\ [][OAuthNext]_vars

\* two devices logging in, signing out and requesting a guarded page while
\* time passes
DeviceNext ==
    \/ \E c \in Devices, credentials \in SharedCredentials : AuthorizeParse(c, credentials)
    \/ \E c \in Devices : AuthorizeLookup(c)
    \/ \E c \in Devices : AuthorizeVerify(c)
    \/ \E c \in Devices : SignOut(c)
    \/ \E c \in Devices : Request(c, "requireAuth", {})
    \/ \E seconds \in {TickSeconds, ClockTolerance} : Tick(seconds)

DeviceSpec == InitNoInsert /\ [][DeviceNext]_vars

\* the tokens a request may carry: the ones a sign-in issues, and the same
\* claims with an empty role or with no role claim at all, which the JWT type
\* rules out but the decoder does not
PresentedTokens ==
    LET issued == { EncodeToken(jwt(DefaultToken(AuthorizedUser(u)), AuthorizedUser(u),
                                    "signIn", Undefined)) : u \in SeedUsers }
    IN  issued
        \cup { [t EXCEPT !.role = ""] : t \in issued }
        \cup { [f \in DOMAIN t \ {"role"} |-> t[f]] : t \in issued }

\* the role sets pages are guarded with, the standard user's among them
GuardedRoleSets == AllowedRoleSets \cup { {"user"} }

\* a client that holds one of the tokens
TokenInit ==
    /\ users = SeedUsers
    /\ nextId = Cardinality(SeedUsers) + 1
    /\ su = [s \in SignupCalls |-> IdleSignup]
    /\ li = [c \in Devices |-> IdleSignIn]
    /\ oauth = [c \in Devices |-> IdleOAuth]
    /\ pending = [c \in Devices |-> NoRequest]
    /\ emailConstraint = TRUE
    /\ req = Null
    /\ seen = {}
    /\ lab = IdleLab
    /\ now = 0
    /\ \E token \in PresentedTokens :
          cookie = [c \in Devices |-> IF c \in Clients THEN token ELSE Null]

\* the session callback and the guards applied to the token the client holds
TokenNext ==
    \/ \E c \in Clients, payload \in UpdatePayloads : SessionUpdateRequest(c, payload)
    \/ \E c \in Clients : SessionUpdate(c)
    \/ \E c \in Clients : SessionFetchRequest(c)
    \/ \E c \in Clients : SessionFetch(c)
    \/ \E c \in Clients, guard \in Guards, allowedRoles \in GuardedRoleSets :
          Request(c, guard, allowedRoles)

TokenSpec == TokenInit /\ [][TokenNext]_vars

\* an address and a password to try both schemas on
SchemaInit ==
    /\ users = SeedUsers
    /\ nextId = Cardinality(SeedUsers) + 1
    /\ su = [s \in SignupCalls |-> IdleSignup]
    /\ li = [c \in Devices |-> IdleSignIn]
    /\ oauth = [c \in Devices |-> IdleOAuth]
    /\ pending = [c \in Devices |-> NoRequest]
    /\ emailConstraint = TRUE
    /\ cookie = [c \in Devices |-> Null]
    /\ req = Null
    /\ seen = {}
    /\ now = 0
    /\ \E e \in LabEmails, p \in LabPasswords :
          lab = [IdleLab EXCEPT !.email = e, !.password = p, !.other = p]

\* signupSchema and loginSchema applied to the same address and password
SchemaNext ==
    \/ LabSignupSchema
    \/ LabLoginSchema

SchemaSpec == SchemaInit /\ [][SchemaNext]_vars

\* the password functions and the schemas applied to chosen passwords
LabNext ==
    \/ \E salt \in 1..MaxSalt, saltOther \in 1..MaxSalt : LabHash(salt, saltOther)
    \/ LabVerify
    \/ LabSignupSchema
    \/ LabLoginSchema

LabSpec == LabInit /\ [][LabNext]_vars

(***************************************************************************)
(* Vocabulary of the claims                                                *)
(***************************************************************************)
Done(call) == call.pc = "done"

\* the stored identity with the email (the email is present)
IdentityOf(email) == CHOOSE r \in users : r.email = email

\* the email already belonged to a stored identity when the call was made
TakenAtCall(call) ==
    \E r \in users : r.email = call.data.email /\ r.id \in call.calledWith

\* no other sign-up has been in flight since call s was made: every other call
\* is idle, or finished without adding an identity after s was made
Quiet(s) ==
    \A t \in SignupCalls \ {s} :
        \/ su[t].pc = "idle"
        \/ /\ Done(su[t])
           /\ su[t].result.success => IdentityOf(su[t].data.email).id \in su[s].calledWith

\* the login of client c was made after sign-up call s had returned success
LoginAfterSignUp(c, s) ==
    /\ Done(su[s])
    /\ su[s].result = SignupCreated
    /\ li[c].credentials = [email |-> su[s].data.email, password |-> su[s].data.password]
    /\ IdentityOf(su[s].data.email).id \in li[c].calledWith

\* authorize accepted the login of client c as the identity u
AcceptedAs(c, u) ==
    /\ li[c].authorized = AuthorizedUser(u)
    /\ li[c].result = [thrown |-> "NEXT_REDIRECT"]

\* a guard has answered a request that carried a token
GuardedWithToken == req # Null /\ req.guard \in Guards /\ req.jar # Null

(***************************************************************************)
(* C1: sign-up, then login                                                 *)
(***************************************************************************)
\* the sign-up call s was made with a payload the signup schema accepts and
\* an email that was not in the identity store
ValidAndFresh(s) ==
    /\ Done(su[s])
    /\ signupSchema(su[s].data) = <<>>
    /\ ~TakenAtCall(su[s])

\* the identity store holds the identity of call s: one row with its email,
\* whose hash is the hash of its password
StoredBy(s) ==
    /\ Cardinality(RowsByEmail(users, su[s].data.email)) = 1
    /\ verifyPassword(su[s].data.password, IdentityOf(su[s].data.email).password)

\* C1 as stated: every sign-up with a payload that passes the signup schema
\* and an email not yet in the identity store returns success, and a later
\* credential login with the same email and password is accepted as that
\* identity
C1_Original ==
    /\ \A s \in SignupCalls : ValidAndFresh(s) => su[s].result = SignupCreated
    /\ \A c \in Clients, s \in SignupCalls :
          Done(li[c]) /\ LoginAfterSignUp(c, s)
          => AcceptedAs(c, IdentityOf(su[s].data.email))

\* C1 amended: with no other sign-up in flight, a sign-up with a payload that
\* passes the signup schema and an email not yet in the identity store
\* returns success and stores the identity, and a later credential login
\* with the same email and password is accepted as that identity
C1_SignUpThenLogin ==
    /\ \A s \in SignupCalls :
          ValidAndFresh(s) /\ Quiet(s) => su[s].result = SignupCreated /\ StoredBy(s)
    /\ \A c \in Clients, s \in SignupCalls :
          Done(li[c]) /\ LoginAfterSignUp(c, s) /\ Quiet(s)
          => AcceptedAs(c, IdentityOf(su[s].data.email))

\* a sign-up for the new email, made alone, has returned success and the
\* login made afterwards with its email and password was accepted
C1_Witness ==
    \E c \in Clients, s \in SignupCalls :
        /\ ValidAndFresh(s) /\ Quiet(s)
        /\ Done(li[c])
        /\ LoginAfterSignUp(c, s)
        /\ su[s].data.email = EmailNew
        /\ li[c].authorized # Null
        /\ cookie[c] # Null /\ cookie[c].id = IdentityOf(EmailNew).id

(***************************************************************************)
(* C2: a sign-up call whose email already belongs to a stored identity     *)
(* returns the failure result with the conflict message, and with no other *)
(* sign-up in flight the identity store is afterwards as it was.           *)
(***************************************************************************)
C2_ConflictResult(s) ==
    /\ su[s].result = Failure(ConflictMessage)
    /\ Quiet(s) => Ids(users) = su[s].calledWith

\* as stated: for every payload reusing an existing email
C2_Original ==
    \A s \in SignupCalls :
        Done(su[s]) /\ TakenAtCall(su[s]) => C2_ConflictResult(s)

\* amended: for every payload the signup schema accepts
C2_ConflictOnValidPayload ==
    \A s \in SignupCalls :
        Done(su[s]) /\ TakenAtCall(su[s]) /\ signupSchema(su[s].data) = <<>>
        => C2_ConflictResult(s)

\* the email was registered by an earlier sign-up, and the second is refused
C2_Witness ==
    \E s \in SignupCalls, t \in SignupCalls :
        /\ s # t
        /\ Done(su[s]) /\ Done(su[t])
        /\ su[t].result = SignupCreated
        /\ su[s].data.email = su[t].data.email
        /\ TakenAtCall(su[s])
        /\ Quiet(s)
        /\ su[s].result = Failure(ConflictMessage)

PassedLookup(call) == call.pc \in {"hash", "insert"}

C4_LookupNotExcluded ==
    \A s \in SignupCalls, t \in SignupCalls :
        (/\ s # t
         /\ PassedLookup(su[s])
         /\ su[t].pc = "lookup"
         /\ su[t].data.email = su[s].data.email
         /\ RowsByEmail(users, su[s].data.email) = {})
        => ENABLED (SignUpLookup(t) /\ su'[t].pc = "hash")

C4_Witness ==
    \E s \in SignupCalls, t \in SignupCalls :
        /\ s # t
        /\ PassedLookup(su[s]) /\ PassedLookup(su[t])
        /\ su[s].data.email = su[t].data.email
        /\ ~Truthy(su[s].existingUser) /\ ~Truthy(su[t].existingUser)
        /\ RowsByEmail(users, su[s].data.email) = {}

(***************************************************************************)
(* C5: a credential login with an existing email and a wrong password and  *)
(* one with an email that has no identity give the client the identical    *)
(* result, {success: false, error: "Invalid email or password"}.           *)
(***************************************************************************)
\* the results given so far for logins rejected for the reason
ResultsFor(reason) == {h.result : h \in {x \in seen : x.reason = reason}}

C5_SameGenericResult ==
    /\ \A a \in ResultsFor("wrongPassword"), b \in ResultsFor("noIdentity") : a = b
    /\ ResultsFor("wrongPassword") \cup ResultsFor("noIdentity") \subseteq {InvalidCredentials}
    /\ \A c \in Clients :
          Done(li[c]) /\ li[c].result = InvalidCredentials => li[c].authorized = Null

\* both kinds of login have been made and answered
C5_Witness ==
    /\ ResultsFor("wrongPassword") # {}
    /\ ResultsFor("noIdentity") # {}

(***************************************************************************)
(* Vocabulary of the guard claims: req is the request just answered, made  *)
(* with the cookie req.jar, for which auth() gave req.session.            *)
(***************************************************************************)
Answered(guard) == req # Null /\ req.guard = guard

\* the request carried a valid token
Authenticated == req.jar # Null /\ ~Expired(req.jar)

\* the session the request's token stands for: the token's id, role and
\* emailVerified under the names and email of the identity
SessionOfJar ==
    HasUser(req.session) /\ req.session.user.id = req.jar.id
                         /\ req.session.user.role = req.jar.role
                         /\ req.session.user.email = req.jar.email

(***************************************************************************)
(* C6: requireRole(allowedRoles) returns the session exactly when the      *)
(* request has a session user whose role is in allowedRoles; an            *)
(* authenticated request with another role is redirected to /unauthorized, *)
(* an unauthenticated one to /login.                                       *)
(***************************************************************************)
C6_RequireRole ==
    Answered("requireRole") =>
        /\ req.outcome.tag = "return"
              <=> (Authenticated /\ req.jar.role \in req.allowedRoles)
        /\ req.outcome.tag = "return" => req.outcome.value = req.session /\ SessionOfJar
        /\ Authenticated /\ req.jar.role \notin req.allowedRoles
              => req.outcome = Redirect("/unauthorized")
        /\ ~Authenticated => req.outcome = Redirect("/login")

\* a viewer asks for an admin-only page
C6_Witness ==
    /\ Answered("requireRole")
    /\ Authenticated
    /\ req.jar.role = "viewer"
    /\ req.allowedRoles = {"admin"}
    /\ req.outcome = Redirect("/unauthorized")

(***************************************************************************)
(* C7: requireAuth and the dashboard page redirect a request without a     *)
(* valid session user to /login and hand out no session; with a session    *)
(* user they return (render with) the session and do not redirect.         *)
(***************************************************************************)
C7_RequireAuth ==
    /\ Answered("requireAuth") =>
          IF Authenticated
          THEN req.outcome = Return(req.session) /\ SessionOfJar
          ELSE req.outcome = Redirect("/login")
    /\ Answered("DashboardPage") =>
          IF Authenticated
          THEN req.outcome = [tag |-> "render", value |-> req.session] /\ SessionOfJar
          ELSE req.outcome = Redirect("/login")

\* a signed-out client asks for a page behind requireAuth
C7_Witness ==
    /\ Answered("requireAuth")
    /\ ~Authenticated
    /\ req.outcome = Redirect("/login")
    /\ \E c \in Clients : Done(li[c]) /\ li[c].authorized # Null

(***************************************************************************)
(* C8: getOptionalAuth never redirects: it returns null without a valid    *)
(* token and the session with one.                                         *)
(***************************************************************************)
C8_OptionalAuth ==
    Answered("getOptionalAuth") =>
        /\ req.outcome.tag = "return"
        /\ IF Authenticated
           THEN req.outcome.value = req.session /\ SessionOfJar
           ELSE req.outcome.value = Null

C8_Witness ==
    /\ Answered("getOptionalAuth")
    /\ ~Authenticated
    /\ req.outcome = Return(Null)

(***************************************************************************)
(* C9: requireEmailVerified redirects an authenticated request to          *)
(* /verify-email exactly when the session's emailVerified is null and      *)
(* otherwise returns the session; an unauthenticated request goes to       *)
(* /login.                                                                 *)
(***************************************************************************)
C9_RequireEmailVerified ==
    Answered("requireEmailVerified") =>
        IF Authenticated
        THEN /\ SessionOfJar
             /\ req.session.user.emailVerified = req.jar.emailVerified
             /\ req.outcome = Redirect("/verify-email")
                   <=> req.session.user.emailVerified = Null
             /\ req.outcome # Redirect("/verify-email")
                   => req.outcome = Return(req.session)
        ELSE req.outcome = Redirect("/login")

\* the unverified standard user is sent to /verify-email
C9_Witness ==
    /\ Answered("requireEmailVerified")
    /\ Authenticated
    /\ req.jar.role = "user"
    /\ req.session.user.emailVerified = Null
    /\ req.outcome = Redirect("/verify-email")

(***************************************************************************)
(* C10: the session read back from the token issued for an accepted        *)
(* identity has the identity's id, role and emailVerified.                 *)
(***************************************************************************)
\* the request was made with the token issued at the login of its client
IssuedByLogin ==
    /\ req # Null
    /\ Done(li[req.client])
    /\ Truthy(li[req.client].authorized)
    /\ req.jar = CookieAfterSignIn(Null, li[req.client].authorized, "credentials")

C10_RoundTrip ==
    IssuedByLogin =>
        /\ req.session.user.id = li[req.client].user.id
        /\ req.session.user.role = li[req.client].user.role
        /\ req.session.user.emailVerified = li[req.client].user.emailVerified

(***************************************************************************)
(* C11: the password hash stays in the store                               *)
(***************************************************************************)
\* the fields of an object that hold a tagged value
TaggedFields == {"password", "emailVerified", "image", "picture"}

\* the object has a password field, or one of its tagged fields holds a
\* password hash
CarriesHash(obj) ==
    \/ "password" \in DOMAIN obj
    \/ \E f \in DOMAIN obj \cap TaggedFields : "tag" \in DOMAIN obj[f] /\ obj[f].tag = "hash"

\* C11: the object authorize returned, the token in the cookie and the
\* session every request is answered with never carry the password hash
C11_NoHashLeaves ==
    /\ \A c \in Clients :
          /\ Truthy(li[c].authorized) => ~CarriesHash(li[c].authorized)
          /\ cookie[c] # Null => ~CarriesHash(cookie[c])
    /\ req # Null =>
          /\ req.jar # Null => ~CarriesHash(req.jar)
          /\ Truthy(req.session) => ~CarriesHash(req.session) /\ ~CarriesHash(req.session.user)

\* a login accepted for an identity that has a password hash, its token in
\* the cookie and a request answered with the session made from it
C11_Witness ==
    \E c \in Clients :
        /\ Truthy(li[c].authorized)
        /\ CarriesHash(li[c].user)
        /\ cookie[c] # Null /\ cookie[c].id = li[c].user.id
        /\ req # Null /\ req.jar = cookie[c] /\ Truthy(req.session)
        /\ req.session.user.id = li[c].user.id

(***************************************************************************)
(* C12: hashing and verification                                           *)
(***************************************************************************)
\* C12: a password of at least one character verifies against its own hash,
\* and verifies against the hash of no other password, the pairs of up to
\* 100 characters that the signup schema admits included
C12_VerifyExact ==
    lab.same # Null =>
        /\ Len(lab.password) >= 1 => lab.same.value
        /\ lab.password # lab.other => ~lab.cross.value

\* the half of C12 that the code keeps: a password verifies against its own
\* hash whatever salt was drawn
C12_VerifyOwn ==
    lab.same # Null /\ Len(lab.password) >= 1 => lab.same.value

(***************************************************************************)
(* C13: what the client sees of a store failure                            *)
(***************************************************************************)
\* the sign-up calls that failed because a query was rejected
StoreFailed == {s \in SignupCalls : su[s].pc = "done" /\ su[s].caught \in StoreErrors}

\* C13: a sign-up that fails because the store throws during the lookup or
\* the insert answers with the generic retry message and with none of the
\* thrown error's text
C13_GenericOnStoreFailure ==
    \A s \in StoreFailed :
        /\ su[s].result = Failure(UnexpectedMessage)
        /\ su[s].result.error # su[s].caught.message

(***************************************************************************)
(* C14: what a sign-up can create                                          *)
(***************************************************************************)
\* the identities created since the start
Created == {u \in users : u.id \notin Ids(SeedUsers)}

\* C14: every identity signUpAction created has role "user", a null
\* emailVerified and a password hash, whatever the payload asked for
C14_CreatedAsPlainUser ==
    \A u \in Created :
        /\ u.role = "user"
        /\ u.emailVerified = Null
        /\ u.password # Null /\ u.password.tag = "hash"

\* a sign-up whose payload asked for role admin and a verified email has
\* succeeded and its identity is stored
C14_Witness ==
    \E s \in SignupCalls :
        /\ su[s].pc = "done" /\ su[s].result = SignupCreated
        /\ su[s].data \in CraftedPayloads
        /\ su[s].data.role = "admin" /\ Truthy(su[s].data.emailVerified)
        /\ \E u \in Created : u.email = su[s].data.email

(***************************************************************************)
(* C15: the password rules of the two schemas                              *)
(***************************************************************************)
\* the password has a character of the class
Has(p, class) == \E i \in 1..Len(p) : p[i] \in class

\* the password has a lowercase letter, an uppercase letter and a digit and
\* a length within the limits of the signup schema
Strong(p) ==
    /\ Has(p, Lower) /\ Has(p, Upper) /\ Has(p, Digit)
    /\ Len(p) >= PasswordMin /\ Len(p) <= PasswordMax

\* C15: the signup schema accepts a password exactly when it has the three
\* character classes and a length within 8..100, and the login schema accepts
\* every non-empty password
C15_PasswordRules ==
    /\ lab.signup # Null => (lab.signup.issues = <<>> <=> Strong(lab.password))
    /\ lab.login # Null /\ Len(lab.password) >= 1 => lab.login.issues = <<>>

\* the parts of C15 that the code keeps: the signup schema rejects every
\* password that is not strong, and the login schema accepts every non-empty
\* password
C15_RejectsWeak ==
    /\ lab.signup # Null /\ ~Strong(lab.password) => lab.signup.issues # <<>>
    /\ lab.login # Null /\ Len(lab.password) >= 1 => lab.login.issues = <<>>

(***************************************************************************)
(* C16: the signIn callback lets every sign-in through                     *)
(***************************************************************************)
Providers == {"credentials", "google"}

\* a step in which authorize accepts the login of client c
Accepting(c) == li[c].pc = "verify" /\ Truthy(li'[c].authorized)

\* the accepted login of client c is let through and its token is issued,
\* whether the identity is verified or not
C16_AcceptedGetsToken ==
    \A c \in Clients :
        Accepting(c) =>
            /\ li'[c].result = [thrown |-> "NEXT_REDIRECT"]
            /\ cookie'[c] # Null
            /\ cookie'[c].id = li'[c].authorized.id
            /\ cookie'[c].emailVerified = ToJson(li'[c].authorized.emailVerified)

\* the callback returns true for every provider, a Google sign-in of any
\* stored identity yields a token, and the dashboard renders for every
\* request that carries a token
C16_AllowedAndRendered ==
    /\ \A provider \in Providers : signInCallback([provider |-> provider])
    /\ \A u \in users : CookieAfterSignIn(Null, AuthorizedUser(u), "google") # Null
    /\ Answered("DashboardPage") /\ Authenticated =>
          req.outcome = [tag |-> "render", value |-> req.session]

\* C16: the signIn callback allows every provider and every user: an accepted
\* credential login gets its session token even with a null emailVerified,
\* and the dashboard page renders for it instead of redirecting
C16_SignInAllowsAll == [][C16_AcceptedGetsToken]_vars /\ []C16_AllowedAndRendered

\* the unverified identity has logged in with its password and the dashboard
\* has rendered for its session, emailVerified still null
C16_Witness ==
    \E c \in Clients :
        /\ Truthy(li[c].authorized)
        /\ li[c].authorized.emailVerified = Null
        /\ Answered("DashboardPage")
        /\ req.client = c
        /\ Authenticated
        /\ req.jar.id = li[c].authorized.id
        /\ req.session.user.emailVerified = Null
        /\ req.outcome.tag = "render"

(***************************************************************************)
(* C17: what the jwt callback changes after the sign-in                    *)
(***************************************************************************)
\* the claims of a token other than emailVerified and the time stamps
OtherClaims(token) == DOMAIN token \ {"emailVerified", "iat", "exp"}

\* a request answered by a guard leaves the cookie as it is
C17_ReadKeepsToken ==
    req' # Null /\ req'.guard \in Guards => cookie' = cookie

\* the token a session update was answered with has the id, the role and
\* every other claim of the token before it; its emailVerified differs only
\* if the update carried a payload; the token a session read was answered
\* with has every claim of the token before it; and the callback run without
\* trigger returns the token it was given
C17_UpdateKeepsIdentity ==
    /\ Answered("update") /\ Authenticated =>
          /\ req.jar.id = req.before.id
          /\ req.jar.role = req.before.role
          /\ OtherClaims(req.jar) = OtherClaims(req.before)
          /\ \A f \in OtherClaims(req.jar) : req.jar[f] = req.before[f]
          /\ Get(req.jar, "emailVerified") # Get(req.before, "emailVerified")
                => Truthy(req.payload)
    /\ Answered("session") /\ Authenticated =>
          /\ OtherClaims(req.jar) = OtherClaims(req.before)
          /\ \A f \in OtherClaims(req.jar) \cup {"emailVerified"} : req.jar[f] = req.before[f]
    /\ \A c \in Clients :
          cookie[c] # Null => jwt(cookie[c], Undefined, "none", Undefined) = cookie[c]

\* C17: a jwt callback run without a user leaves the token's id and role as
\* they are; only emailVerified can change, and only on trigger "update"
\* with a session payload
C17_JwtFrame == [][C17_ReadKeepsToken]_vars /\ []C17_UpdateKeepsIdentity

\* an update with a payload has changed emailVerified of a token, whose id
\* and role are the ones it had
C17_Witness ==
    /\ Answered("update")
    /\ Truthy(req.payload)
    /\ req.jar.emailVerified # req.before.emailVerified
    /\ req.jar.id = req.before.id
    /\ req.jar.role = req.before.role

(***************************************************************************)
(* C18: a token issued before a role change                                *)
(***************************************************************************)
\* the stored identity the token was issued for
StoredOf(jar) == CHOOSE u \in users : u.id = jar.id

\* a step that edits the store leaves every cookie as it is
C18_EditKeepsToken == users' # users => cookie' = cookie

\* a login accepted after the edit gets a token with the role authorize read
C18_SignInTakesRole ==
    \A c \in Clients : Accepting(c) => cookie'[c].role = li[c].user.role

\* requireRole decides on the role in the token, whatever the store says
C18_DecidesOnToken ==
    Answered("requireRole") /\ Authenticated =>
        /\ req.session.user.role = req.jar.role
        /\ req.outcome = Return(req.session) <=> req.jar.role \in req.allowedRoles
        /\ req.outcome # Return(req.session) => req.outcome = Redirect("/unauthorized")

\* C18: after an identity's role is changed in the store, a token issued
\* before keeps its role and requireRole keeps deciding on the token's role
\* on every request, until the user signs in again
C18_StaleRole ==
    [][C18_EditKeepsToken /\ C18_SignInTakesRole]_vars /\ []C18_DecidesOnToken

\* requireRole has let a request through on the role in its token although
\* the store now gives the identity a role that is not allowed
C18_Witness ==
    /\ Answered("requireRole")
    /\ Authenticated
    /\ StoredOf(req.jar).role # req.jar.role
    /\ req.jar.role \in req.allowedRoles
    /\ StoredOf(req.jar).role \notin req.allowedRoles
    /\ req.outcome = Return(req.session)

(***************************************************************************)
(* C20: credential login for an account without a password                 *)
(***************************************************************************)
\* authorize found an identity without a password hash for client c
FoundWithoutPassword(c) == Truthy(li[c].user) /\ ~Truthy(li[c].user.password)

\* C20: a credential login for an identity without a password hash is
\* rejected whatever password was submitted, with the result a wrong
\* password gets, and without reaching verifyPassword
C20_NoPasswordRejected ==
    /\ \A c \in Clients :
          FoundWithoutPassword(c) =>
              /\ li[c].pc = "done"
              /\ li[c].authorized = Null
              /\ li[c].result = InvalidCredentials
    /\ \A a \in ResultsFor("noPassword"), b \in ResultsFor("wrongPassword") : a = b
    /\ ResultsFor("noPassword") \subseteq {InvalidCredentials}

\* the account without a password has been tried, a wrong password has been
\* tried on another account, and both were answered
C20_Witness ==
    /\ ResultsFor("noPassword") # {}
    /\ ResultsFor("wrongPassword") # {}
    /\ \E c \in Clients : FoundWithoutPassword(c) /\ li[c].credentials.password = PwB

(***************************************************************************)
(* C21: the order of the steps of authorize                                *)
(***************************************************************************)
AuthorizeSteps == <<"validate", "lookup", "verify">>

\* the sequence is the first steps of authorize, in their order
InOrder(steps) == Len(steps) <= Len(AuthorizeSteps) /\ steps = SubSeq(AuthorizeSteps, 1, Len(steps))

\* C21: authorize runs validate, lookup, verify in this order; credentials
\* the login schema rejects are rejected without a lookup and without a
\* password verification; and a login is accepted only after the schema
\* passed, the identity was found and its password verified
C21_StepOrder ==
    \A c \in Clients :
        /\ InOrder(li[c].steps)
        /\ li[c].pc # "idle" /\ loginSchema(li[c].credentials) # <<>> =>
              /\ li[c].pc = "done"
              /\ li[c].steps = <<"validate">>
              /\ li[c].authorized = Null
              /\ li[c].result = InvalidCredentials
        /\ Truthy(li[c].authorized) =>
              /\ li[c].steps = AuthorizeSteps
              /\ loginSchema(li[c].credentials) = <<>>
              /\ Truthy(li[c].user) /\ li[c].user.email = li[c].credentials.email
              /\ verifyPassword(li[c].credentials.password, li[c].user.password)

\* credentials the login schema rejects have been answered
C21_Witness ==
    \E c \in Clients :
        /\ li[c].pc = "done"
        /\ loginSchema(li[c].credentials) # <<>>
        /\ li[c].steps = <<"validate">>
        /\ li[c].result = InvalidCredentials

(***************************************************************************)
(* C22: no hash and no write before validation and lookup have passed      *)
(***************************************************************************)
\* the call was refused by the schema or by the uniqueness lookup
RefusedEarly(call) ==
    /\ call.pc = "done"
    /\ \/ signupSchema(call.data) # <<>>
       \/ call.result = Failure(ConflictMessage)

\* the step in which a call is refused early leaves the store as it is
C22_RefusalKeepsStore ==
    \A s \in SignupCalls :
        su[s].pc # "done" /\ RefusedEarly(su'[s]) => users' = users /\ nextId' = nextId

\* a call refused early has computed no hash, and a call that has computed
\* one has passed the schema and found no identity with its email
C22_HashAfterChecks ==
    \A s \in SignupCalls :
        /\ RefusedEarly(su[s]) =>
              /\ su[s].hashedPassword = Null
              /\ ~su[s].result.success
        /\ su[s].hashedPassword # Null =>
              /\ signupSchema(su[s].data) = <<>>
              /\ su[s].pc \in {"insert", "done"}
              /\ su[s].existingUser = Undefined

\* C22: when signUpAction fails because validation failed or because the
\* lookup found the email, it has not changed the store and has not called
\* hashPassword; the password is hashed only after both checks have passed
C22_ChecksBeforeHash == [][C22_RefusalKeepsStore]_vars /\ []C22_HashAfterChecks

\* one call has been refused by the schema and another by the lookup
C22_Witness ==
    \E s \in SignupCalls, t \in SignupCalls :
        /\ RefusedEarly(su[s]) /\ signupSchema(su[s].data) # <<>>
        /\ RefusedEarly(su[t]) /\ su[t].result = Failure(ConflictMessage)
        /\ Truthy(su[t].existingUser)

(***************************************************************************)
(* C23: what signInWithCredentials makes of the error signIn throws        *)
(***************************************************************************)
\* the value is a result object, not a thrown error
IsResult(v) == "success" \in DOMAIN v

\* C23: signInWithCredentials returns the "Invalid email or password"
\* failure exactly when signIn threw the AuthError CredentialsSignin, the
\* generic failure for every other AuthError, and throws every other error
\* again, the redirect signal of a successful login included
C23_CatchMapping ==
    \A c \in Clients :
        Done(li[c]) =>
            /\ li[c].result = InvalidCredentials
                  <=> li[c].thrown.authError /\ li[c].thrown.type = "CredentialsSignin"
            /\ li[c].thrown.authError /\ li[c].thrown.type # "CredentialsSignin"
                  => li[c].result = SomethingWentWrong
            /\ ~li[c].thrown.authError
                  => ~IsResult(li[c].result) /\ li[c].result = [thrown |-> li[c].thrown.type]
            /\ Truthy(li[c].authorized) => li[c].result = [thrown |-> "NEXT_REDIRECT"]

\* signIn has thrown an error that is no AuthError and no redirect signal,
\* and the caller got it thrown
C23_Witness ==
    \E c \in Clients :
        /\ Done(li[c])
        /\ ~li[c].thrown.authError
        /\ li[c].thrown.type # "NEXT_REDIRECT"
        /\ li[c].result = [thrown |-> li[c].thrown.type]

(***************************************************************************)
(* C25: an exception inside authorize                                      *)
(***************************************************************************)
\* C25: when the lookup or the password comparison throws inside authorize,
\* authorize returns null, the client gets the result a wrong password gets,
\* and what signIn throws is the CredentialsSignin error, not the exception
C25_ThrowIsRejection ==
    /\ \A c \in Clients :
          Done(li[c]) /\ Truthy(li[c].caught) =>
              /\ li[c].authorized = Null
              /\ li[c].thrown = [authError |-> TRUE, type |-> "CredentialsSignin"]
              /\ li[c].result = InvalidCredentials
    /\ ResultsFor("threw") \subseteq {InvalidCredentials}
    /\ \A a \in ResultsFor("threw"), b \in ResultsFor("wrongPassword") : a = b

\* a lookup has thrown and a wrong password has been tried, and both were
\* answered
C25_Witness ==
    /\ ResultsFor("threw") # {}
    /\ ResultsFor("wrongPassword") # {}
    /\ \E c \in Clients : Done(li[c]) /\ li[c].caught \in StoreErrors

(***************************************************************************)
(* C24: tokens of the same identity on two devices                         *)
(***************************************************************************)
\* device d gets a token or gives its token up in this step
SignsInOrOut(d) == Accepting(d) \/ (cookie[d] # Null /\ cookie'[d] = Null)

\* a login or a sign-out on one device leaves the token of every other
\* device as it is
C24_OtherTokenKept ==
    \A c \in Devices, d \in Devices :
        c # d /\ SignsInOrOut(d) => cookie'[c] = cookie[c]

\* a request with a token that has not expired is answered as the token's
\* identity, whatever the other devices hold
C24_TokenStandsAlone ==
    GuardedWithToken /\ ~Expired(req.jar) =>
        /\ HasUser(req.session)
        /\ req.session.user.id = req.jar.id
        /\ req.outcome = Return(req.session)

\* C24: two logins for the same identity give two tokens that are valid at
\* the same time: the second login does not invalidate the first token, and
\* a sign-out on one device leaves the other device's token accepted by the
\* guards until it expires
C24_ConcurrentTokens == [][C24_OtherTokenKept]_vars /\ []C24_TokenStandsAlone

\* both devices were logged in as the same identity, one has signed out, and
\* a guard has accepted a request of the other
C24_Witness ==
    \E c \in Devices, d \in Devices :
        /\ c # d
        /\ Truthy(li[c].authorized) /\ Truthy(li[d].authorized)
        /\ li[c].authorized.id = li[d].authorized.id
        /\ li[c].at.time <= li[d].at.time
        /\ cookie[d] = Null
        /\ req # Null /\ req.client = c /\ req.jar # Null
        /\ req.jar.id = li[c].authorized.id
        /\ req.jar.iat = li[c].at.time
        /\ req.outcome = Return(req.session)

(***************************************************************************)
(* C26: emailVerified after an update                                      *)
(***************************************************************************)
\* C26: after an update with a session payload the token's emailVerified is
\* the payload's emailVerified, whatever the stored identity says, and
\* requireEmailVerified lets a request through whose token has a non-null
\* emailVerified, also when the stored identity's emailVerified is null
C26_UpdateTakesPayload ==
    /\ Answered("update") /\ Authenticated /\ Truthy(req.payload) =>
          Get(req.jar, "emailVerified") = Get(req.payload, "emailVerified")
    /\ Answered("requireEmailVerified") /\ Authenticated
          /\ Truthy(Get(req.jar, "emailVerified")) =>
          req.outcome = Return(req.session)

\* requireEmailVerified has let a request through on the emailVerified of
\* its token while the stored identity's emailVerified is null
C26_Witness ==
    /\ Answered("requireEmailVerified")
    /\ Authenticated
    /\ Truthy(req.jar.emailVerified)
    /\ StoredOf(req.jar).emailVerified = Null
    /\ req.outcome = Return(req.session)

(***************************************************************************)
(* C27: the session role of a token without a role                         *)
(***************************************************************************)
\* the token carries a role claim that is not empty
HasRole(jar) == "role" \in DOMAIN jar /\ jar.role # ""

\* C27: the session made from a token has the token's role when the token
\* carries one and "user" when the role is missing or empty, so the role is
\* always one of the three roles, and requireRole lets a token without a
\* role through exactly where it lets a standard user through
C27_RoleDefaultsToUser ==
    /\ req # Null /\ Authenticated =>
          /\ HasUser(req.session)
          /\ req.session.user.role \in Roles
          /\ req.session.user.role = IF HasRole(req.jar) THEN req.jar.role ELSE "user"
    /\ Answered("requireRole") /\ Authenticated /\ ~HasRole(req.jar) =>
          /\ "user" \in req.allowedRoles => req.outcome = Return(req.session)
          /\ "user" \notin req.allowedRoles => req.outcome = Redirect("/unauthorized")

\* requireRole has let a token without a role claim through to a page for
\* standard users
C27_Witness ==
    /\ Answered("requireRole")
    /\ Authenticated
    /\ "role" \notin DOMAIN req.jar
    /\ req.allowedRoles = {"user"}
    /\ req.session.user.role = "user"
    /\ req.outcome = Return(req.session)

(***************************************************************************)
(* C28: what signup accepts, login accepts                                 *)
(***************************************************************************)
\* C28: an address and a password that signupSchema accepts are accepted by
\* loginSchema too
C28_SignupImpliesLogin ==
    lab.signup # Null /\ lab.login # Null /\ lab.signup.issues = <<>> =>
        lab.login.issues = <<>>

\* both schemas have accepted a password longer than eight characters at an
\* address with a plus sign
C28_Witness ==
    /\ lab.signup # Null /\ lab.login # Null
    /\ lab.email = EmailPlus
    /\ lab.password = Pw100
    /\ lab.signup.issues = <<>>
    /\ lab.login.issues = <<>>

====
